---- MODULE Spec2Model ----
(***************************************************************************)
(* Model of pqos/monitor.c: the registry of monitoring groups built from   *)
(* the -m / -p option strings, monitor_setup, monitor_loop, monitor_stop.  *)
(*                                                                         *)
(* Event masks (enum pqos_mon_event used as a bit set) are sets of bit     *)
(* names; "rest" stands for every bit other than the three event bits, so  *)
(* that PQOS_MON_EVENT_ALL (-1, all bits set) is the only mask holding it  *)
(* and bitwise OR is set union.                                            *)
(***************************************************************************)
EXTENDS Integers, Sequences, FiniteSets, TLC

VARIABLES
    pc,                     \* position of the single program thread
    sel_monitor_num,        \* number of registered core groups
    sel_monitor_core_tab,   \* core groups: <<[cores, events, pgrp]>>
    sel_process_num,        \* number of registered pid groups
    sel_monitor_pid_tab,    \* pid groups: <<[pid, events, pgrp]>>
    m_mon_grps,             \* group handles by index
    nalloc,                 \* handles malloc'ed so far (handle ids 1..nalloc)
    sel_events_max,         \* events to display
    evt,                    \* parse_monitor_event / sel_store_process_id: evt
    n_left,                 \* candidates of the current clause still to process
    sel_output_type,        \* "NULL", "text", "xml" or "csv"
    sel_output_file,        \* "NULL" or "file"
    sel_mon_top_like,
    sel_timeout,
    stop_monitoring_loop,
    fp_monitor,             \* "NULL", "stdout" or "file"
    out,                    \* what was written to fp_monitor, in order
    started,                \* backend start calls: <<[h, events]>>
    start_ret,              \* what each backend start call returned
    llc,                    \* values.llc of each handle
    mon_number,             \* monitor_loop: mon_number
    mon_data,               \* monitor_loop: the working list (handles)
    max_lines,              \* monitor_loop: max_lines
    istty,                  \* monitor_loop: istty
    poll_log,               \* count argument of each pqos_mon_poll call
    poll_ret,               \* what the last pqos_mon_poll returned ("": no call yet)
    flushed,                \* elements of out written when fp was flushed last
    factor,                 \* monitor_loop: llc_factor, mbr_factor, mbl_factor
    asked,                  \* pqos_cap_get_event calls: <<[event, ret]>>
    sig_handler,            \* the handler of SIGINT and SIGHUP
    sel_mon_interval,       \* polling interval in units of 100 ms
    clock,                  \* the wall clock (gettimeofday), in units of 100 ms
    tv_start,               \* monitor_loop: tv_start
    tv_s,                   \* monitor_loop: tv_s of the current tick
    exit_by,                \* how monitor_loop left its loop
    stop_log,               \* handles passed to pqos_mon_stop, in order
    stop_errors,            \* "Monitoring stop error!" lines printed
    freed,                  \* handles passed to free by monitor_cleanup, in order
    str,                    \* strtocgrps: the target list s, as its segments
    cgrp_tab,               \* strtocgrps: the groups set up in tab
    cgrp_n,                 \* strtocgrps: the value returned
    errmsg,                 \* the error message printed last ("": none)
    term_rows               \* rows of the terminal behind fp_monitor, as of the
                            \* program's first look at it (0 before)

cfgvars == <<sel_monitor_num, sel_monitor_core_tab, sel_process_num,
             sel_monitor_pid_tab, m_mon_grps, nalloc, sel_events_max,
             evt, n_left>>

optvars == <<sel_output_type, sel_output_file, sel_mon_top_like, sel_timeout,
             sel_mon_interval>>

runvars == <<stop_monitoring_loop, fp_monitor, out, started, start_ret, llc, mon_number,
             mon_data, max_lines, istty, poll_log, poll_ret, flushed, factor,
             asked, sig_handler, clock, tv_start, tv_s, exit_by, stop_log,
             stop_errors, freed>>

\* The scale factors and the signal handler monitor_loop sets up.
facvars == <<factor, asked, sig_handler>>

\* The events a scale factor is kept for.
FactorNames == {"llc", "mbr", "mbl"}

\* The variables of a strtocgrps call.
cgrpvars == <<str, cgrp_tab, cgrp_n>>

vars == <<pc, cfgvars, optvars, runvars, cgrpvars, errmsg, term_rows>>

----------------------------------------------------------------------------
(* Bounds of the model *)

\* Slots of sel_monitor_core_tab and m_mon_grps (PQOS_MAX_CORES, 1024 in
\* pqos.h, scaled down).
MaxCores == 2
\* Slots of sel_monitor_pid_tab (PQOS_MAX_PIDS, 128 in the source, scaled).
MaxPids == 2
\* Longest bracket group a clause names.
MaxGroupLen == 2
\* Ticks of monitor_loop that are followed.
MaxTicks == 2
\* Longest time (in units of 100 ms) one tick's poll and output take, and a
\* sleep lasts beyond the time asked for.
MaxDelay == 12
\* Latest reading of the wall clock (in units of 100 ms) that is followed.
MaxClock == 45
\* Largest row count the terminal reports.
MaxRows == 4
\* Pieces of one target list.
MaxSegs == 2

PQOS_MAX_CORES == MaxCores
PQOS_MAX_PIDS == MaxPids

\* Core ids the option strings may name: one more than the tables have slots
\* (the parser accepts any number).
CoreIds == 0 .. PQOS_MAX_CORES

\* A uint64_t number hi * 2^32 + lo (the model's lo are below 2^31).
U64(hi, lo) == [hi |-> hi, lo |-> lo]

\* The numbers strlisttotab stores in processes[] for the pids a clause names:
\* one more than the table has slots, and one that does not fit 32 bits
\* (2^32 + 1).
PidIds == {U64(0, k) : k \in 1 .. (PQOS_MAX_PIDS + 1)} \cup {U64(1, 1)}

\* (pid_t)processes[i]: the low 32 bits.
ToPid(v) == v.lo

----------------------------------------------------------------------------
(* Event masks *)

PQOS_MON_EVENT_L3_OCCUP == {"llc"}
PQOS_MON_EVENT_LMEM_BW == {"mbl"}
PQOS_MON_EVENT_RMEM_BW == {"mbr"}
PQOS_MON_EVENT_ALL == {"llc", "mbl", "mbr", "rest"}
NoEvent == {}

\* The beginnings of the clauses the options are given: everything up to and
\* including the colon, or the whole clause when it has no colon.
Prefixes == {"llc:", "mbr:", "mbl:", "all:", ":", "LLC:", "All:", "llc", "bad:"}

\* The characters of a clause's beginning.
Text(p) ==
    CASE p = "llc:" -> <<"l", "l", "c", ":">>
      [] p = "mbr:" -> <<"m", "b", "r", ":">>
      [] p = "mbl:" -> <<"m", "b", "l", ":">>
      [] p = "all:" -> <<"a", "l", "l", ":">>
      [] p = ":" -> <<":">>
      [] p = "LLC:" -> <<"L", "L", "C", ":">>
      [] p = "All:" -> <<"A", "l", "l", ":">>
      [] p = "llc" -> <<"l", "l", "c">>
      [] p = "bad:" -> <<"b", "a", "d", ":">>

\* tolower of the C library on the letters of the clauses.
tolower(c) ==
    CASE c = "A" -> "a"
      [] c = "C" -> "c"
      [] c = "L" -> "l"
      [] OTHER -> c

\* The character at position i of a C string ("nul": its terminator).
CharAt(s, i) == IF i <= Len(s) THEN s[i] ELSE "nul"

\* strncasecmp(s1, s2, n): 0 when the strings agree, letter case aside, in
\* their first n characters or up to their common end, 1 (nonzero) otherwise.
strncasecmp(s1, s2, n) ==
    IF \A i \in 1 .. n :
          (\A j \in 1 .. (i - 1) : CharAt(s1, j) # "nul")
              => tolower(CharAt(s1, i)) = tolower(CharAt(s2, i))
    THEN 0
    ELSE 1

\* parse_error(arg, note): where the program is after the call.  Its code is
\* not part of monitor.c; a configuration error is always fatal, so it prints
\* the note and ends the program with a failure status.
parse_error == "exit_failure"

\* parse_event with an event for every clause.
parse_event_evt_any(p) ==
    LET s == Text(p)
    IN  IF strncasecmp(s, <<"l", "l", "c", ":">>, 4) = 0
        THEN PQOS_MON_EVENT_L3_OCCUP
        ELSE IF strncasecmp(s, <<"m", "b", "r", ":">>, 4) = 0
        THEN PQOS_MON_EVENT_RMEM_BW
        ELSE IF strncasecmp(s, <<"m", "b", "l", ":">>, 4) = 0
        THEN PQOS_MON_EVENT_LMEM_BW
        ELSE PQOS_MON_EVENT_ALL

\* parse_event: the event of a clause (NoEvent for an unrecognised one,
\* which ends in parse_error).
parse_event_evt(p) ==
    LET s == Text(p)
    IN  IF strncasecmp(s, <<"l", "l", "c", ":">>, 4) = 0
        THEN PQOS_MON_EVENT_L3_OCCUP
        ELSE IF strncasecmp(s, <<"m", "b", "r", ":">>, 4) = 0
        THEN PQOS_MON_EVENT_RMEM_BW
        ELSE IF strncasecmp(s, <<"m", "b", "l", ":">>, 4) = 0
        THEN PQOS_MON_EVENT_LMEM_BW
        ELSE IF \/ strncasecmp(s, <<"a", "l", "l", ":">>, 4) = 0
                \/ strncasecmp(s, <<":">>, 1) = 0
        THEN PQOS_MON_EVENT_ALL
        ELSE NoEvent

\* parse_event: sel_events_max after the clause (untouched by all:, by a
\* bare colon and by an unrecognised clause).
parse_event_max(p, max) ==
    IF parse_event_evt(p) \in {PQOS_MON_EVENT_L3_OCCUP, PQOS_MON_EVENT_RMEM_BW,
                               PQOS_MON_EVENT_LMEM_BW}
    THEN max \cup parse_event_evt(p)
    ELSE max

----------------------------------------------------------------------------
(* Core groups *)

Range(s) == {s[k] : k \in 1 .. Len(s)}
Disjoint(cores_a, cores_b) == Range(cores_a) \cap Range(cores_b) = {}
SameSet(cores_a, cores_b) == Range(cores_a) = Range(cores_b)

\* The groups strtocgrps hands over: lists of distinct core ids (strlisttotab
\* fills the list of one token), the group without cores of an empty bracket
\* among them.
CandGroups ==
    {s \in UNION {[1 .. k -> CoreIds] : k \in 0 .. MaxGroupLen} :
        \A a, b \in 1 .. Len(s) : a # b => s[a] # s[b]}

\* The comparison without the check that every core was matched.
cmp_cgrps_sizes(cg_a, cg_b) ==
    LET found == Cardinality({ij \in (1 .. Len(cg_a)) \X (1 .. Len(cg_b)) :
                                  cg_a[ij[1]] = cg_b[ij[2]]})
    IN  IF found = 0 THEN 0
        ELSE IF Len(cg_a) = Len(cg_b) THEN 1
        ELSE -1

cmp_cgrps(cg_a, cg_b) ==
    LET found == Cardinality({ij \in (1 .. Len(cg_a)) \X (1 .. Len(cg_b)) :
                                  cg_a[ij[1]] = cg_b[ij[2]]})
    IN  IF found = 0 THEN 0
        ELSE IF Len(cg_a) = Len(cg_b) /\ Len(cg_b) = found THEN 1
        ELSE -1

\* The scan `for (found = 0, j = 0; j < sel_monitor_num && found == 0; j++)`:
\* the first registered group the candidate is not disjoint from (0: none).
FirstHit(tab, cand) ==
    LET hits == {j \in 1 .. Len(tab) : cmp_cgrps(tab[j].cores, cand) # 0}
    IN  IF hits = {} THEN 0 ELSE CHOOSE j \in hits : \A k \in hits : j <= k

\* m_mon_grps[idx] = h (idx counted from 1); the array is modelled as long as
\* its highest written index.
SetHandle(grps, idx, h) ==
    IF idx <= Len(grps) THEN [grps EXCEPT ![idx] = h]
    ELSE grps \o [k \in 1 .. (idx - Len(grps)) |-> IF k = idx - Len(grps) THEN h ELSE 0]


----------------------------------------------------------------------------
(* State after construction: the static initialisers of monitor.c *)

Init ==
    /\ pc = "main"
    /\ sel_monitor_num = 0
    /\ sel_monitor_core_tab = <<>>
    /\ sel_process_num = 0
    /\ sel_monitor_pid_tab = <<>>
    /\ m_mon_grps = <<>>
    /\ nalloc = 0
    /\ sel_events_max = {}
    /\ evt = {}
    /\ n_left = 0
    /\ sel_output_type = "NULL"
    /\ sel_output_file = "NULL"
    /\ sel_mon_top_like = 0
    /\ sel_timeout = -1
    /\ sel_mon_interval = 10
    /\ stop_monitoring_loop = 0
    /\ fp_monitor = "NULL"
    /\ out = <<>>
    /\ started = <<>>
    /\ start_ret = <<>>
    /\ llc = <<>>
    /\ mon_number = 0
    /\ mon_data = <<>>
    /\ max_lines = 0
    /\ istty = 0
    /\ poll_log = <<>>
    /\ poll_ret = ""
    /\ flushed = 0
    /\ factor = [e \in FactorNames |-> "1.0"]
    /\ asked = <<>>
    /\ sig_handler = "SIG_DFL"
    /\ clock = 0
    /\ tv_start = 0
    /\ tv_s = 0
    /\ exit_by = "none"
    /\ stop_log = <<>>
    /\ stop_errors = 0
    /\ freed = <<>>
    /\ str = <<>>
    /\ cgrp_tab = <<>>
    /\ cgrp_n = 0
    /\ errmsg = ""
    /\ term_rows = 0

----------------------------------------------------------------------------
(* -m: selfn_monitor_cores, parse_monitor_event *)

\* selfn_monitor_cores up to its first strtok_r: sel_events_max is reset.
selfn_monitor_cores ==
    /\ pc = "main"
    /\ pc' = "cores_tok"
    /\ sel_events_max' = {}
    /\ UNCHANGED <<sel_monitor_num, sel_monitor_core_tab, sel_process_num,
                   sel_monitor_pid_tab, m_mon_grps, nalloc, evt, n_left>>
    /\ UNCHANGED <<optvars, runvars, cgrpvars, errmsg, term_rows>>

\* selfn_monitor_cores: strtok_r finds no further clause.
selfn_monitor_cores_end ==
    /\ pc = "cores_tok"
    /\ pc' = "main"
    /\ UNCHANGED <<cfgvars, optvars, runvars, cgrpvars, errmsg, term_rows>>

\* parse_monitor_event up to its loop: parse_event on the prefix p, then
\* strtocgrps returning n (-1: more groups than PQOS_MAX_CORES).  evt and n
\* are locals: they are dropped (reset) when the function returns.
parse_monitor_event_body(p, n) ==
    /\ pc = "cores_tok"
    /\ IF parse_event_evt(p) = NoEvent
       THEN /\ pc' = parse_error
            /\ errmsg' = "Unrecognized monitoring event type"
            /\ UNCHANGED cfgvars
       ELSE /\ sel_events_max' = parse_event_max(p, sel_events_max)
            /\ IF n < 0
               THEN pc' = "exit_failure" /\ n_left' = 0 /\ evt' = {}
               ELSE IF n = 0
               THEN pc' = "cores_tok" /\ n_left' = 0 /\ evt' = {}
               ELSE pc' = "cores_grp" /\ n_left' = n /\ evt' = parse_event_evt(p)
            /\ errmsg' = IF n < 0 THEN "Error: Too many cores selected" ELSE errmsg
            /\ UNCHANGED <<sel_monitor_num, sel_monitor_core_tab, sel_process_num,
                           sel_monitor_pid_tab, m_mon_grps, nalloc>>
    /\ UNCHANGED <<optvars, runvars, term_rows>>

\* parse_monitor_event with strtocgrps returning n, whatever groups it set up.
parse_monitor_event(p, n) ==
    /\ parse_monitor_event_body(p, n)
    /\ UNCHANGED cgrpvars

\* The table slot a new group is stored in.
NewCoreGroup(cand, e, h) == [cores |-> cand, events |-> e, pgrp |-> h]

\* `events = evt`
MergeEvents_assign(old, e) == e

\* `events |= evt`
MergeEvents(old, e) == old \cup e

\* One pass of the loop `for (i = 0; i < n; i++)` of parse_monitor_event on
\* the candidate group cgrp_tab[i] = cand.  A new group is stored at index
\* sel_monitor_num whatever its value: beyond the last slot the store is out
\* of bounds, and what follows it is not defined (pc "ub").
parse_group_body(cand) ==
    /\ pc = "cores_grp"
    /\ LET j == FirstHit(sel_monitor_core_tab, cand)
           found == IF j = 0 THEN 0 ELSE cmp_cgrps(sel_monitor_core_tab[j].cores, cand)
           last == n_left = 1
           next_pc == IF last THEN "cores_tok" ELSE "cores_grp"
       IN  IF found < 0
           THEN /\ pc' = "exit_failure"
                /\ errmsg' = "Error: cannot monitor same cores in different groups"
                /\ UNCHANGED cfgvars
           ELSE IF found > 0
           THEN /\ sel_monitor_core_tab' =
                       [sel_monitor_core_tab EXCEPT ![j].events = MergeEvents(@, evt)]
                /\ errmsg' = errmsg
                /\ n_left' = n_left - 1
                /\ evt' = IF last THEN {} ELSE evt
                /\ pc' = next_pc
                /\ UNCHANGED <<sel_monitor_num, sel_process_num, sel_monitor_pid_tab,
                               m_mon_grps, nalloc, sel_events_max>>
           ELSE /\ sel_monitor_core_tab' =
                       Append(sel_monitor_core_tab, NewCoreGroup(cand, evt, nalloc + 1))
                /\ m_mon_grps' = SetHandle(m_mon_grps, sel_monitor_num + 1, nalloc + 1)
                /\ nalloc' = nalloc + 1
                /\ sel_monitor_num' = sel_monitor_num + 1
                /\ n_left' = n_left - 1
                /\ evt' = IF last THEN {} ELSE evt
                /\ pc' = IF sel_monitor_num >= PQOS_MAX_CORES THEN "ub" ELSE next_pc
                /\ UNCHANGED <<sel_process_num, sel_monitor_pid_tab, sel_events_max,
                               errmsg>>
    /\ UNCHANGED <<optvars, runvars, term_rows>>

\* One pass of the loop on a candidate cgrp_tab[i] = cand handed over by
\* strtocgrps, whichever it is.
parse_group(cand) ==
    /\ parse_group_body(cand)
    /\ UNCHANGED cgrpvars

----------------------------------------------------------------------------
(* strtocgrps *)

Min(a, b) == IF a < b THEN a ELSE b

\* The lists of distinct core ids with at least lo numbers.
CoreLists(lo) ==
    {s \in UNION {[1 .. k -> CoreIds] : k \in lo .. MaxGroupLen} :
        \A a, b \in 1 .. Len(s) : a # b => s[a] # s[b]}

\* One piece of the target list as strsep cuts it: the text before a "["
\* (bracket = FALSE, at least one number, since strtocgrps skips an empty
\* piece) or the text between "[" and "]" (bracket = TRUE, possibly empty).
Segment(bracket, list) == [bracket |-> bracket, list |-> list]

Segments ==
    {Segment(FALSE, l) : l \in CoreLists(1)} \cup
    {Segment(TRUE, l) : l \in CoreLists(0)}

\* The target lists: the text before a "[" is one piece, so two pieces
\* outside brackets never follow each other.
TargetLists ==
    {s \in UNION {[1 .. k -> Segments] : k \in 1 .. MaxSegs} :
        \A k \in 1 .. (Len(s) - 1) : s[k].bracket \/ s[k + 1].bracket}

\* strlisttotab(str, tab, max): the numbers of the list stored in tab, the
\* value returned being their count.  Its code is not part of monitor.c: it
\* stores at most max numbers, or it reports every number of the list, and
\* both outcomes are kept.
strlisttotab(list, max) ==
    {SubSeq(list, 1, Min(Len(list), max)), list}

\* set_cgrp: the group of the first num_cores numbers of cores; malloc(0)
\* may return NULL, which is set_cgrp's error.
set_cgrp(cores, num_cores) ==
    {[ret |-> 0, cores |-> SubSeq(cores, 1, num_cores)]} \cup
    (IF num_cores = 0 THEN {[ret |-> -1, cores |-> <<>>]} ELSE {})

\* The check after each strlisttotab call.
TooManyCores(index, n, max) == index + n > max

\* strtocgrps from piece k on, tab holding the groups set up so far
\* (index = Len(tab)): the set of its outcomes.  ub marks a write to
\* tab[index] with index >= max, behind the end of the caller's table.
RECURSIVE strtocgrps_from(_, _, _, _)
strtocgrps_from(s, k, tab, max) ==
    IF k > Len(s)
    THEN {[ret |-> Len(tab), tab |-> tab, ub |-> FALSE]}
    ELSE LET index == Len(tab)
             fail == [ret |-> -1, tab |-> tab, ub |-> FALSE]
         IN UNION {
              IF TooManyCores(index, Len(cbuf), max)
              THEN {fail}
              ELSE IF ~s[k].bracket
              THEN strtocgrps_from(s, k + 1,
                       tab \o [i \in 1 .. Len(cbuf) |-> <<cbuf[i]>>], max)
              ELSE IF index >= max
              THEN {[ret |-> -1, tab |-> tab, ub |-> TRUE]}
              ELSE UNION {
                     IF g.ret < 0
                     THEN {fail}
                     ELSE strtocgrps_from(s, k + 1, Append(tab, g.cores), max)
                     : g \in set_cgrp(cbuf, Len(cbuf))}
              : cbuf \in strlisttotab(s[k].list, max - index)}

strtocgrps(s, max) == strtocgrps_from(s, 1, <<>>, max)

\* parse_monitor_event's call strtocgrps(str, cgrp_tab, PQOS_MAX_CORES).
strtocgrps_call ==
    /\ pc = "strtocgrps"
    /\ \E r \in strtocgrps(str, PQOS_MAX_CORES) :
            /\ cgrp_tab' = r.tab
            /\ cgrp_n' = r.ret
            /\ pc' = IF r.ub THEN "ub" ELSE "strtocgrps_ret"
    /\ UNCHANGED <<str, cfgvars, optvars, runvars, errmsg, term_rows>>

\* parse_monitor_event(str) on the clause with beginning p and target list s:
\* parse_event, then strtocgrps on the text after the colon, then the check
\* of its result.  The locals str, cgrp_tab and n live until the function
\* returns; the program ends with them when the function does not return.
parse_monitor_event_str(p, s) ==
    IF parse_event_evt(p) = NoEvent
    THEN parse_monitor_event(p, 0)
    ELSE \E r \in strtocgrps(s, PQOS_MAX_CORES) :
            IF r.ub
            THEN /\ pc = "cores_tok"
                 /\ pc' = "ub"
                 /\ sel_events_max' = parse_event_max(p, sel_events_max)
                 /\ str' = s
                 /\ UNCHANGED <<cgrp_tab, cgrp_n>>
                 /\ UNCHANGED <<sel_monitor_num, sel_monitor_core_tab, sel_process_num,
                                sel_monitor_pid_tab, m_mon_grps, nalloc, evt, n_left>>
                 /\ UNCHANGED <<optvars, runvars, errmsg, term_rows>>
            ELSE /\ parse_monitor_event_body(p, r.ret)
                 /\ str' = IF r.ret # 0 THEN s ELSE <<>>
                 /\ cgrp_tab' = IF r.ret > 0 THEN r.tab ELSE <<>>
                 /\ cgrp_n' = IF r.ret > 0 THEN r.ret ELSE 0

\* One pass of the loop on the next candidate of cgrp_tab (cgrp_tab holds the
\* candidates still to be processed).
parse_group_next ==
    /\ pc = "cores_grp"
    /\ cgrp_tab # <<>>
    /\ parse_group_body(Head(cgrp_tab))
    /\ cgrp_tab' = IF pc' = "cores_grp" THEN Tail(cgrp_tab) ELSE <<>>
    /\ str' = IF pc' = "cores_grp" THEN str ELSE <<>>
    /\ cgrp_n' = IF pc' = "cores_grp" THEN cgrp_n ELSE 0

----------------------------------------------------------------------------
(* -p: selfn_monitor_pids, sel_store_process_id *)

selfn_monitor_pids ==
    /\ pc = "main"
    /\ pc' = "pids_tok"
    /\ sel_events_max' = {}
    /\ UNCHANGED <<sel_monitor_num, sel_monitor_core_tab, sel_process_num,
                   sel_monitor_pid_tab, m_mon_grps, nalloc, evt, n_left>>
    /\ UNCHANGED <<optvars, runvars, cgrpvars, errmsg, term_rows>>

selfn_monitor_pids_end ==
    /\ pc = "pids_tok"
    /\ pc' = "main"
    /\ UNCHANGED <<cfgvars, optvars, runvars, cgrpvars, errmsg, term_rows>>

\* The check `n >= DIM(sel_monitor_pid_tab)` of one clause's pid count.
TooManyPids(n) == n >= PQOS_MAX_PIDS

\* sel_store_process_id up to its loop: parse_event, then strlisttotab
\* returning n pids (at most DIM(processes), the bound it is given).
sel_store_process_id(p, n) ==
    /\ pc = "pids_tok"
    /\ IF parse_event_evt(p) = NoEvent
       THEN /\ pc' = parse_error
            /\ errmsg' = "Unrecognized monitoring event type"
            /\ UNCHANGED cfgvars
       ELSE /\ sel_events_max' = parse_event_max(p, sel_events_max)
            /\ IF n = 0 \/ TooManyPids(n)
               THEN pc' = parse_error /\ n_left' = 0 /\ evt' = {}
               ELSE pc' = "pids_pid" /\ n_left' = n /\ evt' = parse_event_evt(p)
            /\ errmsg' = IF n = 0
                         THEN "No process id selected for monitoring"
                         ELSE IF TooManyPids(n)
                         THEN "too many processes selected for monitoring"
                         ELSE errmsg
            /\ UNCHANGED <<sel_monitor_num, sel_monitor_core_tab, sel_process_num,
                           sel_monitor_pid_tab, m_mon_grps, nalloc>>
    /\ UNCHANGED <<optvars, runvars, cgrpvars, term_rows>>

\* A table slot without the handle.
NewPidGroup_nohandle(pid, e, h) == [pid |-> pid, events |-> e, pgrp |-> 0]

\* The table slot a new pid is stored in.
NewPidGroup(pid, e, h) == [pid |-> pid, events |-> e, pgrp |-> h]

\* The scan for processes[i] = v in sel_monitor_pid_tab (0: not there), by
\* `(unsigned)sel_monitor_pid_tab[j].pid == processes[i]`: the comparison is
\* made in 64 bits, the stored pid widened from unsigned.
FindPid(tab, v) ==
    LET hits == {j \in 1 .. Len(tab) : U64(0, tab[j].pid) = v}
    IN  IF hits = {} THEN 0 ELSE CHOOSE j \in hits : \A k \in hits : j <= k

\* One pass of the loop `for (i = 0; i < n; i++)` of sel_store_process_id on
\* processes[i] = pid.  As in parse_group the store index is not checked.
store_pid(v) ==
    /\ pc = "pids_pid"
    /\ LET j == FindPid(sel_monitor_pid_tab, v)
           last == n_left = 1
           next_pc == IF last THEN "pids_tok" ELSE "pids_pid"
       IN  IF j > 0
           THEN /\ sel_monitor_pid_tab' =
                       [sel_monitor_pid_tab EXCEPT ![j].events = MergeEvents(@, evt)]
                /\ pc' = next_pc
                /\ UNCHANGED <<sel_process_num, m_mon_grps, nalloc>>
           ELSE /\ sel_monitor_pid_tab' =
                       Append(sel_monitor_pid_tab, NewPidGroup(ToPid(v), evt, nalloc + 1))
                /\ m_mon_grps' = SetHandle(m_mon_grps, sel_process_num + 1, nalloc + 1)
                /\ nalloc' = nalloc + 1
                /\ sel_process_num' = sel_process_num + 1
                /\ pc' = IF sel_process_num >= PQOS_MAX_PIDS THEN "ub" ELSE next_pc
    /\ n_left' = n_left - 1
    /\ evt' = IF n_left = 1 THEN {} ELSE evt
    /\ UNCHANGED <<sel_monitor_num, sel_monitor_core_tab, sel_events_max>>
    /\ UNCHANGED <<optvars, runvars, cgrpvars, errmsg, term_rows>>

----------------------------------------------------------------------------
(* -u: selfn_monitor_file_type *)

selfn_monitor_file_type(arg) ==
    /\ pc = "main"
    /\ sel_output_type' = arg
    /\ pc' = "main"
    /\ UNCHANGED <<sel_output_file, sel_mon_top_like, sel_timeout, sel_mon_interval>>
    /\ UNCHANGED <<cfgvars, runvars, cgrpvars, errmsg, term_rows>>

----------------------------------------------------------------------------
(* monitor_setup *)

\* process_mode()
process_mode == IF sel_process_num <= 0 THEN 0 ELSE 1

\* What the capability descriptor lists: the union of all event types, and of
\* those with pid_support.
Caps == {[core |-> {"llc", "mbl", "mbr"}, pid |-> {"llc"}],
         [core |-> {"llc"}, pid |-> {"llc"}],
         [core |-> {"llc", "mbl", "mbr"}, pid |-> {}]}

\* One piece of output: its kind t, the group handle h it is about (0: none)
\* and, for a header or a row, its data columns.
Tok(t, h) == [t |-> t, h |-> h, cols |-> <<>>]

\* The output type once a NULL sel_output_type was replaced by "text".
OutputType(type) == IF type = "NULL" THEN "text" ELSE type

\* What monitor_setup writes to a freshly opened output file: the XML
\* declaration and root opening element for type xml; nothing is written to
\* stdout.
SetupOutput(type, file) ==
    IF file # "NULL" /\ type = "xml"
    THEN <<Tok("xml_decl", 0), Tok("xml_root_open", 0)>>
    ELSE <<>>

\* A check that lets core and pid groups pass together.
BothModes_never(core_num, process_num) == FALSE

\* `if (sel_process_num > 0 && sel_monitor_num > 0)`
BothModes(core_num, process_num) == process_num > 0 /\ core_num > 0

\* A default registry in the opposite order of cpu_info.
DefaultGroups_reversed(ncpu, all_core_evts, h0) ==
    [k \in 1 .. ncpu |-> [cores |-> <<ncpu - k>>, events |-> all_core_evts,
                          pgrp |-> h0 + k]]

\* The default registry: one single-core group per core of cpu_info (lcores
\* 0 .. ncpu - 1), each with all core events.
DefaultGroups(ncpu, all_core_evts, h0) ==
    [k \in 1 .. ncpu |-> NewCoreGroup(<<k - 1>>, all_core_evts, h0 + k)]

\* The events left as they are.
ExpandAll_never(events, all_evts) == events

\* `if (events == evt_all) events = all_evts`
ExpandAll(events, all_evts) ==
    IF events = PQOS_MON_EVENT_ALL THEN all_evts ELSE events

\* The table after the start loop reached (and called the backend for) its
\* first `calls` entries.
ExpandTab(tab, calls, all_evts) ==
    [k \in 1 .. Len(tab) |->
        IF k <= calls THEN [tab[k] EXCEPT !.events = ExpandAll(@, all_evts)]
        ELSE tab[k]]

\* sel_events_max after the same part of the start loop.
ExpandMax(max, tab, calls, all_evts) ==
    IF \E k \in 1 .. Len(tab) : k <= calls /\ tab[k].events = PQOS_MON_EVENT_ALL
    THEN max \cup all_evts ELSE max

\* A start loop that goes on after a failed start.
StartCalls_all(n, fail_at) == n

\* The backend start calls of the loop over n groups: `return -1` at the
\* first call that fails (fail_at, 0: none does).
StartCalls(n, fail_at) == IF fail_at = 0 THEN n ELSE fail_at

\* monitor_setup(cpu_info, cap_mon).  fopen_ok: whether the output file could
\* be opened; fail_at: the index (from 1) of the group whose backend start
\* fails, 0 if none does.
monitor_setup(cap, ncpu, fopen_ok, fail_at) ==
    /\ pc = "main"
    /\ LET type == OutputType(sel_output_type)
           populate == sel_monitor_num = 0 /\ sel_process_num = 0
           ctab == IF populate THEN DefaultGroups(ncpu, cap.core, nalloc)
                   ELSE sel_monitor_core_tab
           cnum == IF populate THEN ncpu ELSE sel_monitor_num
           max0 == IF populate THEN cap.core ELSE sel_events_max
           n == IF sel_process_num > 0 THEN sel_process_num ELSE cnum
           calls == StartCalls(n, fail_at)
           rets == [k \in 1 .. calls |-> IF k = fail_at THEN "PQOS_RETVAL_ERROR"
                                         ELSE "PQOS_RETVAL_OK"]
       IN  /\ fail_at <= n
           /\ sel_output_type' = type
           /\ IF type \notin {"text", "xml", "csv"}
              THEN /\ pc' = "setup_failed"
                   /\ UNCHANGED <<cfgvars, fp_monitor, out, started, start_ret, llc>>
              ELSE IF sel_output_file # "NULL" /\ ~fopen_ok
              THEN /\ pc' = "setup_failed"
                   /\ UNCHANGED <<cfgvars, fp_monitor, out, started, start_ret, llc>>
              ELSE /\ fp_monitor' = IF sel_output_file = "NULL" THEN "stdout" ELSE "file"
                   /\ out' = SetupOutput(type, sel_output_file)
                   /\ sel_monitor_num' = cnum
                   /\ nalloc' = IF populate THEN nalloc + ncpu ELSE nalloc
                   /\ m_mon_grps' = IF populate THEN [k \in 1 .. ncpu |-> nalloc + k]
                                    ELSE m_mon_grps
                   /\ llc' = [h \in 1 .. nalloc' |-> 0]
                   /\ UNCHANGED <<sel_process_num, evt, n_left>>
                   /\ IF BothModes(cnum, sel_process_num)
                      THEN /\ pc' = "setup_failed"
                           /\ sel_monitor_core_tab' = ctab
                           /\ sel_events_max' = max0
                           /\ UNCHANGED <<sel_monitor_pid_tab, started, start_ret>>
                      ELSE IF sel_process_num <= 0
                      THEN /\ sel_monitor_core_tab' = ExpandTab(ctab, calls, cap.core)
                           /\ sel_events_max' = ExpandMax(max0, ctab, calls, cap.core)
                           /\ start_ret' = rets
                           /\ started' = [k \in 1 .. calls |->
                                             [h |-> ctab[k].pgrp,
                                              events |-> ExpandAll(ctab[k].events, cap.core)]]
                           /\ pc' = IF fail_at = 0 THEN "setup_ok" ELSE "setup_failed"
                           /\ UNCHANGED sel_monitor_pid_tab
                      ELSE /\ sel_monitor_pid_tab' =
                                  ExpandTab(sel_monitor_pid_tab, calls, cap.pid)
                           /\ sel_events_max' =
                                  ExpandMax(max0, sel_monitor_pid_tab, calls, cap.pid)
                           /\ start_ret' = rets
                           /\ started' = [k \in 1 .. calls |->
                                             [h |-> sel_monitor_pid_tab[k].pgrp,
                                              events |-> ExpandAll(sel_monitor_pid_tab[k].events,
                                                                   cap.pid)]]
                           /\ pc' = IF fail_at = 0 THEN "setup_ok" ELSE "setup_failed"
                           /\ sel_monitor_core_tab' = ctab
    /\ UNCHANGED <<sel_output_file, sel_mon_top_like, sel_timeout, sel_mon_interval>>
    /\ UNCHANGED <<stop_monitoring_loop, mon_number, mon_data, max_lines, istty,
                   poll_log, poll_ret, flushed, facvars, clock, tv_start, tv_s, exit_by, stop_log, stop_errors, freed,
                   cgrpvars, errmsg, term_rows>>

----------------------------------------------------------------------------
(* monitor_loop *)

TERM_MIN_NUM_LINES == 3

\* Cache occupancy readings the backend reports (uint64_t values.llc).  TLC's
\* integers have 32 bits, so a reading is held in units of 2^16 bytes: the
\* readings of the model are 0, 2^16 and 2^31 bytes.
LlcValues == {0, 1, 32768}

\* (int)x for an int64_t x that is d units of 2^16: the conversion keeps the
\* low 32 bits of x as a signed number, which in units of 2^16 are the low 16
\* bits of d as a signed number.
IntOfUnits(d) == ((d + 32768) % 65536) - 32768

\* mon_qsort_llc_cmp_desc on two groups' values.llc (in units of 2^16; every
\* reading of the model is below 2^63, so (int64_t) leaves it unchanged and
\* the subtraction does not overflow)
mon_qsort_llc_cmp_desc(a_llc, b_llc) == IntOfUnits(b_llc - a_llc)

\* The comparison with its operands swapped.
mon_qsort_coreid_cmp_swapped(a_core, b_core) == b_core - a_core

\* mon_qsort_coreid_cmp_asc on two groups' cores[0]: the unsigned difference
\* converted to int, which for core ids below 2^31 is their difference.
mon_qsort_coreid_cmp_asc(a_core, b_core) == a_core - b_core

\* cores[0] of the group behind handle h (set by pqos_mon_start from the table)
FirstCore(h) ==
    LET k == CHOOSE k \in 1 .. Len(sel_monitor_core_tab) : sel_monitor_core_tab[k].pgrp = h
    IN  sel_monitor_core_tab[k].cores[1]

Perms(n) == {f \in [1 .. n -> 1 .. n] : \A a, b \in 1 .. n : a # b => f[a] # f[b]}

\* qsort: the orders of list it may return for the comparison cmp (a function
\* of two elements).  With a
\* comparison that is a consistent order these are the sorted ones (elements
\* that compare equal in any order); with one that admits no sorted order the
\* result is unspecified.
qsort(list, cmp) ==
    LET n == Len(list)
        all == {[k \in 1 .. n |-> list[f[k]]] : f \in Perms(n)}
        sorted == {p \in all : \A a, b \in 1 .. n : a < b => cmp[p[a], p[b]] <= 0}
    IN  IF sorted # {} THEN sorted ELSE all

\* A data column of a row: the value it was filled in for (of) and whether the
\* value was written (data) or the column left blank.
Column(of, data) == [of |-> of, data |-> data]

\* A column function that writes nothing where there is no data.
fillin_column_unless_blank(of, is_monitored, is_column_present) ==
    IF is_monitored THEN <<Column(of, TRUE)>> ELSE <<>>

\* fillin_text_column: "%11.1f" of the value, or 11 blanks, or nothing.  (The
\* 128 bytes of data[] hold three columns of any value of the model.)
fillin_text_column(of, is_monitored, is_column_present) ==
    IF is_monitored THEN <<Column(of, TRUE)>>
    ELSE IF is_column_present THEN <<Column(of, FALSE)>>
    ELSE <<>>

\* fillin_xml_column: <node>value</node>, or <node></node>, or nothing.
fillin_xml_column(of, is_monitored, is_column_present) ==
    IF is_monitored THEN <<Column(of, TRUE)>>
    ELSE IF is_column_present THEN <<Column(of, FALSE)>>
    ELSE <<>>

\* fillin_csv_column: ",value", or ",", or nothing.
fillin_csv_column(of, is_monitored, is_column_present) ==
    IF is_monitored THEN <<Column(of, TRUE)>>
    ELSE IF is_column_present THEN <<Column(of, FALSE)>>
    ELSE <<>>

fillin_text_row(mon_event, max) ==
    fillin_text_column("llc", "llc" \in mon_event, "llc" \in max) \o
    fillin_text_column("mbl", "mbl" \in mon_event, "mbl" \in max) \o
    fillin_text_column("mbr", "mbr" \in mon_event, "mbr" \in max)

fillin_xml_row(mon_event, max) ==
    fillin_xml_column("llc", "llc" \in mon_event, "llc" \in max) \o
    fillin_xml_column("mbl", "mbl" \in mon_event, "mbl" \in max) \o
    fillin_xml_column("mbr", "mbr" \in mon_event, "mbr" \in max)

fillin_csv_row(mon_event, max) ==
    fillin_csv_column("llc", "llc" \in mon_event, "llc" \in max) \o
    fillin_csv_column("mbl", "mbl" \in mon_event, "mbl" \in max) \o
    fillin_csv_column("mbr", "mbr" \in mon_event, "mbr" \in max)

\* The column titles strncat appends to the text and CSV header.
HeaderColumns(max) ==
    (IF "llc" \in max THEN <<"llc">> ELSE <<>>) \o
    (IF "mbl" \in max THEN <<"mbl">> ELSE <<>>) \o
    (IF "mbr" \in max THEN <<"mbr">> ELSE <<>>)

\* mon_data[i]->event: the events the group behind handle h was started with.
EventOf(h) ==
    LET k == CHOOSE k \in 1 .. Len(started) : started[k].h = h
    IN  started[k].events

\* print_text_row / print_xml_row / print_csv_row: the identity fields of the
\* group behind handle h and its data columns.
print_row(type, h) ==
    [t |-> "row", h |-> h,
     cols |-> IF type = "text" THEN fillin_text_row(EventOf(h), sel_events_max)
              ELSE IF type = "xml" THEN fillin_xml_row(EventOf(h), sel_events_max)
              ELSE fillin_csv_row(EventOf(h), sel_events_max)]

\* A tick that renders every group whatever the terminal height.
ClampRows_never(num, lines) == num

\* The clamp of mon_number to the terminal height.
ClampRows(num, lines) ==
    IF lines > 0 /\ (num + TERM_MIN_NUM_LINES - 1) > lines
    THEN lines - TERM_MIN_NUM_LINES + 1
    ELSE num

\* max_lines from the window size ws_row (-1: the ioctl failed, or no tty).
MaxLinesOf(ws_row) ==
    IF ws_row < 0 THEN 0
    ELSE IF ws_row < TERM_MIN_NUM_LINES THEN TERM_MIN_NUM_LINES ELSE ws_row

\* The events get_event_factors asks the backend about.
FactorEvents == sel_events_max \cap {"llc", "mbl", "mbr"}

\* The order get_event_factors goes through the events in.
FactorOrder == <<"llc", "mbr", "mbl">>

\* A get_event_factors that asks for the descriptor of every event.
FactorAsked_always(event, max) == TRUE

\* `if (sel_events_max & PQOS_MON_EVENT_...)`
FactorAsked(event, max) == event \in max

\* get_event_factors from the k-th event on: for an event of max the
\* descriptor is asked for (pqos_cap_get_event), and the function returns
\* with an error when the backend has none (missing), otherwise the factor is
\* the descriptor's scale factor; the factor of any other event is 1.0.
RECURSIVE get_event_factors_from(_, _, _, _, _)
get_event_factors_from(k, max, missing, calls, f) ==
    IF k > Len(FactorOrder)
    THEN [ret |-> "PQOS_RETVAL_OK", asked |-> calls, factor |-> f]
    ELSE LET e == FactorOrder[k]
         IN  IF FactorAsked(e, max)
             THEN IF e \in missing
                  THEN [ret |-> "PQOS_RETVAL_ERROR",
                        asked |-> Append(calls, [event |-> e,
                                                 ret |-> "PQOS_RETVAL_ERROR"]),
                        factor |-> f]
                  ELSE get_event_factors_from(k + 1, max, missing,
                          Append(calls, [event |-> e, ret |-> "PQOS_RETVAL_OK"]),
                          [f EXCEPT ![e] = "scale_factor"])
             ELSE get_event_factors_from(k + 1, max, missing, calls,
                                         [f EXCEPT ![e] = "1.0"])

\* get_event_factors, entered with the factors monitor_loop declared.
get_event_factors(max, missing, f) == get_event_factors_from(1, max, missing, <<>>, f)

\* monitor_loop up to its while loop.  factors_ok: whether the backend
\* supplies every descriptor asked for; tty / ws_row: isatty and TIOCGWINSZ.
monitor_loop_begin(factors_ok, tty, ws_row) ==
    /\ pc = "setup_ok"
    /\ \E missing \in SUBSET FactorNames :
          LET r == get_event_factors(sel_events_max, missing, factor)
          IN  /\ factors_ok = (r.ret = "PQOS_RETVAL_OK")
              /\ asked' = r.asked
              /\ factor' = r.factor
    /\ sig_handler' = IF factors_ok THEN "monitoring_ctrlc" ELSE sig_handler
    /\ (fp_monitor = "file" => tty = 0)
    /\ (tty = 0 => ws_row = -1)
    /\ (FactorEvents = {} => factors_ok)
    /\ mon_number' = IF process_mode = 0 THEN sel_monitor_num ELSE sel_process_num
    /\ IF ~factors_ok
       THEN /\ pc' = "loop_returned"
            /\ exit_by' = "factors"
            /\ UNCHANGED <<istty, max_lines, out, tv_start, term_rows>>
       ELSE /\ pc' = "loop_top"
            /\ istty' = tty
            /\ term_rows' = IF ws_row >= 0 THEN ws_row ELSE term_rows
            /\ max_lines' = MaxLinesOf(ws_row)
            /\ tv_start' = clock
            /\ out' = IF sel_output_type = "csv"
                      THEN Append(out, [t |-> "csv_header", h |-> 0,
                                        cols |-> HeaderColumns(sel_events_max)])
                      ELSE out
            /\ UNCHANGED exit_by
    /\ UNCHANGED <<cfgvars, optvars>>
    /\ UNCHANGED <<stop_monitoring_loop, fp_monitor, started, start_ret, llc, mon_data,
                   poll_log, poll_ret, flushed, clock, tv_s, stop_log, stop_errors, freed, cgrpvars, errmsg>>

\* A tick that writes no header.
TickHead_without_header ==
    (IF istty = 1 THEN <<Tok("clear", 0), Tok("home", 0)>> ELSE <<>>) \o
    (IF sel_output_type = "text" THEN <<Tok("time", 0)>> ELSE <<>>)

\* What one tick writes before its rows (the text header was built from
\* sel_events_max before the loop, and sel_events_max is not written since).
TickHead ==
    (IF istty = 1 THEN <<Tok("clear", 0), Tok("home", 0)>> ELSE <<>>) \o
    (IF sel_output_type = "text"
     THEN <<Tok("time", 0),
            [t |-> "header", h |-> 0, cols |-> HeaderColumns(sel_events_max)]>>
     ELSE <<>>)

\* A flush that precedes the row loop.
fflush_before_rows(written, rows) == Len(written)

\* fflush(fp) after the row loop: what was written before the tick's rows
\* and the rows are flushed.
fflush(written, rows) == Len(written \o rows)

\* A loop that does not look at the stop flag at its top.
LoopCondition_always(stop) == TRUE

\* `while (!stop_monitoring_loop)`
LoopCondition(stop) == stop = 0

\* A loop that goes on whatever pqos_mon_poll returned.
PollFailed_never(ret) == FALSE

\* `if (ret != PQOS_RETVAL_OK)` after pqos_mon_poll
PollFailed(ret) == ret # "PQOS_RETVAL_OK"

\* One pass of the while loop from its condition to fflush and the second
\* gettimeofday: poll, copy, sort, clamp, header, rows.  dt: the time that
\* passes between the two clock readings tv_s and tv_e.
monitor_loop_tick(poll_ok, vals, dt) ==
    /\ pc = "loop_top"
    /\ IF ~LoopCondition(stop_monitoring_loop)
       THEN /\ pc' = "loop_break"
            /\ exit_by' = "signal"
            /\ UNCHANGED <<llc, mon_data, mon_number, out, poll_log, poll_ret, flushed,
                         clock, tv_s>>
       ELSE /\ Len(poll_log) < MaxTicks
            /\ clock + dt <= MaxClock
            /\ poll_log' = Append(poll_log, mon_number)
            /\ poll_ret' = IF poll_ok THEN "PQOS_RETVAL_OK" ELSE "PQOS_RETVAL_ERROR"
            /\ tv_s' = clock
            /\ IF PollFailed(poll_ret')
               THEN /\ pc' = "loop_returned"
                    /\ exit_by' = "poll_error"
                    /\ mon_data' = <<>>
                    /\ UNCHANGED <<llc, mon_number, out, clock, flushed>>
               ELSE /\ DOMAIN vals = 1 .. mon_number
                    /\ clock' = clock + dt
                    /\ llc' = [h \in DOMAIN llc |->
                                 IF \E k \in DOMAIN vals : m_mon_grps[k] = h
                                 THEN vals[CHOOSE k \in DOMAIN vals : m_mon_grps[k] = h]
                                 ELSE llc[h]]
                    /\ LET copy == SubSeq(m_mon_grps, 1, mon_number)
                           orders ==
                             IF sel_mon_top_like # 0
                             THEN qsort(copy, [a \in Range(copy), b \in Range(copy) |->
                                          mon_qsort_llc_cmp_desc(llc'[a], llc'[b])])
                             ELSE IF process_mode = 0
                             THEN qsort(copy, [a \in Range(copy), b \in Range(copy) |->
                                          mon_qsort_coreid_cmp_asc(FirstCore(a), FirstCore(b))])
                             ELSE {copy}
                       IN  \E sorted \in orders :
                             /\ mon_data' = sorted
                             /\ mon_number' = ClampRows(mon_number, max_lines)
                             /\ LET rows == [k \in 1 .. mon_number' |->
                                                print_row(sel_output_type, sorted[k])]
                                IN  /\ flushed' = fflush(out \o TickHead, rows)
                                    /\ out' = out \o TickHead \o rows \o
                                          (IF istty = 1 THEN <<Tok("home", 0)>>
                                           ELSE <<>>)
                    /\ pc' = "post_render"
                    /\ UNCHANGED exit_by
    /\ UNCHANGED <<cfgvars, optvars>>
    /\ UNCHANGED <<stop_monitoring_loop, fp_monitor, started, start_ret, max_lines, istty,
                   tv_start, stop_log, stop_errors, freed, cgrpvars, errmsg, term_rows,
                   facvars>>

looprest == <<cfgvars, optvars, fp_monitor, out, started, start_ret, llc, mon_number, mon_data,
              max_lines, istty, poll_log, poll_ret, flushed, facvars, tv_start, tv_s, stop_log, stop_errors, freed,
              cgrpvars, errmsg, term_rows>>

\* tv_sec of a clock reading.
tv_sec(t) == t \div 10

\* The time the interval sleep of the current tick is over: tv_s plus the
\* interval (req is the interval less usec_diff, counted from tv_e).
SleepUntil == tv_s + sel_mon_interval

\* After the tick: `if (stop_monitoring_loop) break;`, then the interval
\* sleep when the tick took less than the interval (usec_diff < interval).
monitor_loop_pace ==
    /\ pc = "post_render"
    /\ IF stop_monitoring_loop # 0
       THEN pc' = "loop_break" /\ exit_by' = "signal"
       ELSE /\ pc' = (IF clock - tv_s < sel_mon_interval THEN "pre_sleep"
                      ELSE "time_check")
            /\ UNCHANGED exit_by
    /\ UNCHANGED <<looprest, stop_monitoring_loop, clock>>

\* req is filled in and the first nanosleep is entered.
nanosleep_call ==
    /\ pc = "pre_sleep"
    /\ pc' = "sleeping"
    /\ UNCHANGED <<looprest, stop_monitoring_loop, clock, exit_by>>

\* nanosleep returns.  The first one returns 0 once the time asked for is
\* over, or later (over).  The second one, entered with the rest of that time,
\* returns either the same way or before that time when it is interrupted
\* again (early); its result is not looked at.
nanosleep_return(early, over) ==
    /\ pc \in {"sleeping", "sleeping2"}
    /\ (early => pc = "sleeping2")
    /\ clock' = (IF early \/ clock > SleepUntil THEN clock ELSE SleepUntil) + over
    /\ clock' <= MaxClock
    /\ pc' = "time_check"
    /\ UNCHANGED <<looprest, stop_monitoring_loop, exit_by>>

\* A signal other than SIGINT/SIGHUP interrupts the first nanosleep (-1)
\* after d of the time asked for.
other_signal(d) ==
    /\ pc = "sleeping"
    /\ clock + d < SleepUntil
    /\ clock' = clock + d
    /\ pc' = "sleep_intr"
    /\ UNCHANGED <<looprest, stop_monitoring_loop, exit_by>>

\* The first nanosleep returned -1: break if stopped, else sleep on for rem.
monitor_loop_interrupted ==
    /\ pc = "sleep_intr"
    /\ IF stop_monitoring_loop # 0
       THEN pc' = "loop_break" /\ exit_by' = "signal"
       ELSE pc' = "sleeping2" /\ UNCHANGED exit_by
    /\ UNCHANGED <<looprest, stop_monitoring_loop, clock>>

\* `(tv_e.tv_sec - tv_start.tv_sec) > sel_time` with the comparison >=.
TimedOut_ge(now, start, sel_time) == (tv_sec(now) - tv_sec(start)) >= sel_time

\* `(tv_e.tv_sec - tv_start.tv_sec) > sel_time`
TimedOut(now, start, sel_time) == (tv_sec(now) - tv_sec(start)) > sel_time

\* `if (sel_time >= 0)`: the clock is read and the loop left when the
\* seconds it shows since tv_start exceed sel_time.
monitor_loop_timeout ==
    /\ pc = "time_check"
    /\ IF sel_timeout >= 0 /\ TimedOut(clock, tv_start, sel_timeout)
       THEN pc' = "loop_break" /\ exit_by' = "timeout"
       ELSE pc' = "loop_top" /\ UNCHANGED exit_by
    /\ UNCHANGED <<looprest, stop_monitoring_loop, clock>>

\* The user resizes the terminal the loop writes to.
terminal_resized(rows) ==
    /\ pc \in {"loop_top", "post_render", "pre_sleep", "sleeping", "sleeping2",
               "time_check"}
    /\ istty = 1
    /\ rows # term_rows
    /\ term_rows' = rows
    /\ UNCHANGED <<pc, cfgvars, optvars, runvars, cgrpvars, errmsg>>

\* A loop whose exit on the stop flag skips the closing output.
LoopTail_not_on_signal ==
    IF exit_by = "signal" THEN <<>>
    ELSE (IF sel_output_type = "xml" THEN <<Tok("xml_root_close", 0)>> ELSE <<>>) \o
         (IF istty = 1 THEN <<Tok("newlines", 0)>> ELSE <<>>)

\* What monitor_loop writes after its loop.
LoopTail ==
    (IF sel_output_type = "xml" THEN <<Tok("xml_root_close", 0)>> ELSE <<>>) \o
    (IF istty = 1 THEN <<Tok("newlines", 0)>> ELSE <<>>)

\* monitor_loop after its while loop: the closing output, free(mon_data).
monitor_loop_end ==
    /\ pc = "loop_break"
    /\ out' = out \o LoopTail
    /\ mon_data' = <<>>
    /\ pc' = "loop_done"
    /\ UNCHANGED <<cfgvars, optvars>>
    /\ UNCHANGED <<stop_monitoring_loop, fp_monitor, started, start_ret, llc, mon_number,
                   max_lines, istty, poll_log, poll_ret, flushed, facvars, clock, tv_start, tv_s, exit_by,
                   stop_log, stop_errors, freed, cgrpvars, errmsg, term_rows>>

\* The signal handler, once monitor_loop installed it: SIGINT or SIGHUP is
\* delivered.  A nanosleep in progress is interrupted by it (the first one
\* returns -1, the second one returns and its result is not looked at); a
\* signal delivered anywhere else only sets the flag.
monitoring_ctrlc ==
    /\ sig_handler = "monitoring_ctrlc"
    /\ pc \in {"loop_top", "post_render", "pre_sleep", "sleeping", "sleep_intr",
               "sleeping2", "time_check", "loop_break"}
    /\ stop_monitoring_loop' = 1
    /\ pc' = (IF pc = "sleeping" THEN "sleep_intr"
              ELSE IF pc = "sleeping2" THEN "time_check"
              ELSE pc)
    /\ (pc' = pc => stop_monitoring_loop = 0)
    /\ UNCHANGED <<looprest, clock, exit_by>>

----------------------------------------------------------------------------
(* monitor_stop *)

\* A loop that ends at the first failed call.
StopCalls_break(grps, n, failed) ==
    [k \in 1 .. (IF failed \cap (1 .. n) = {} THEN n
                 ELSE CHOOSE f \in failed \cap (1 .. n) :
                          \A g \in failed \cap (1 .. n) : f <= g) |-> grps[k]]

\* The pqos_mon_stop calls of the loop `for (i = 0; i < mon_number; i++)`:
\* a failed call (its index in failed) is reported and the loop goes on.
StopCalls(grps, n, failed) == [k \in 1 .. n |-> grps[k]]

\* The handles monitor_cleanup frees: `for (j = 0; j < sel_monitor_num; j++)
\* free(m_mon_grps[j])`.
FreedHandles(grps, core_num, process_num) == [j \in 1 .. core_num |-> grps[j]]

monitor_stop(failed) ==
    /\ pc \in {"loop_done", "loop_returned"}
    /\ LET n == IF process_mode = 0 THEN sel_monitor_num ELSE sel_process_num
       IN  /\ failed \subseteq 1 .. n
           /\ stop_log' = StopCalls(m_mon_grps, n, failed)
           /\ stop_errors' = Cardinality({k \in failed : k <= Len(stop_log')})
    /\ pc' = "stopped"
    /\ UNCHANGED <<cfgvars, optvars>>
    /\ UNCHANGED <<stop_monitoring_loop, fp_monitor, out, started, start_ret, llc, mon_number,
                   mon_data, max_lines, istty, poll_log, poll_ret, flushed, facvars,
                   clock, tv_start, tv_s, exit_by, freed, cgrpvars, errmsg, term_rows>>

\* monitor_cleanup, called once monitor_stop returned: the output file is
\* closed, the output strings are freed, and free is called on
\* m_mon_grps[j] for j < sel_monitor_num.
monitor_cleanup ==
    /\ pc = "stopped"
    /\ pc' = "cleaned"
    /\ fp_monitor' = "NULL"
    /\ sel_output_file' = "NULL"
    /\ sel_output_type' = "NULL"
    /\ freed' = FreedHandles(m_mon_grps, sel_monitor_num, sel_process_num)
    /\ UNCHANGED <<cfgvars, sel_mon_top_like, sel_timeout, sel_mon_interval>>
    /\ UNCHANGED <<stop_monitoring_loop, out, started, start_ret, llc, mon_number,
                   mon_data, max_lines, istty, poll_log, poll_ret, flushed, facvars,
                   clock, tv_start, tv_s, exit_by, stop_log, stop_errors, cgrpvars,
                   errmsg, term_rows>>

----------------------------------------------------------------------------
(* A run from a finished configuration *)

\* Lists of pairwise disjoint core groups that fit the table, over the cores
\* 0 .. PQOS_MAX_CORES - 1.
RunCoreLists ==
    {gs \in UNION {[1 .. k -> CandGroups] : k \in 1 .. PQOS_MAX_CORES} :
        /\ \A a, b \in 1 .. Len(gs) : a # b => Disjoint(gs[a], gs[b])
        /\ \A a \in 1 .. Len(gs) : gs[a] # <<>>
        /\ \A a \in 1 .. Len(gs) : Range(gs[a]) \subseteq 0 .. (PQOS_MAX_CORES - 1)}

\* Lists of distinct pids that fit the table, over the pids 1 .. PQOS_MAX_PIDS.
RunPidLists ==
    {ps \in UNION {[1 .. k -> 1 .. PQOS_MAX_PIDS] : k \in 1 .. PQOS_MAX_PIDS} :
        \A a, b \in 1 .. Len(ps) : a # b => ps[a] # ps[b]}

\* The state main() is in after the options `-m llc:...` or `-p llc:...`,
\* -u, -o, -t and -T were processed: a registry of groups that all monitor
\* cache occupancy, and the selected output and run options.
InitRun ==
    /\ pc = "main"
    /\ \/ \E gs \in RunCoreLists :
             /\ sel_monitor_core_tab =
                   [k \in 1 .. Len(gs) |-> NewCoreGroup(gs[k], {"llc"}, k)]
             /\ sel_monitor_num = Len(gs)
             /\ sel_monitor_pid_tab = <<>>
             /\ sel_process_num = 0
             /\ m_mon_grps = [k \in 1 .. Len(gs) |-> k]
             /\ nalloc = Len(gs)
       \/ \E ps \in RunPidLists :
             /\ sel_monitor_pid_tab =
                   [k \in 1 .. Len(ps) |-> NewPidGroup(ps[k], {"llc"}, k)]
             /\ sel_process_num = Len(ps)
             /\ sel_monitor_core_tab = <<>>
             /\ sel_monitor_num = 0
             /\ m_mon_grps = [k \in 1 .. Len(ps) |-> k]
             /\ nalloc = Len(ps)
    /\ sel_events_max = {"llc"}
    /\ evt = {}
    /\ n_left = 0
    /\ sel_output_type \in {"NULL", "xml", "csv"}
    /\ sel_output_file \in {"NULL", "file"}
    /\ sel_mon_top_like \in {0, 1}
    /\ sel_timeout \in {-1, 0}
    /\ sel_mon_interval = 10
    /\ stop_monitoring_loop = 0
    /\ fp_monitor = "NULL"
    /\ out = <<>>
    /\ started = <<>>
    /\ start_ret = <<>>
    /\ llc = <<>>
    /\ mon_number = 0
    /\ mon_data = <<>>
    /\ max_lines = 0
    /\ istty = 0
    /\ poll_log = <<>>
    /\ poll_ret = ""
    /\ flushed = 0
    /\ factor = [e \in FactorNames |-> "1.0"]
    /\ asked = <<>>
    /\ sig_handler = "SIG_DFL"
    /\ clock = 0
    /\ tv_start = 0
    /\ tv_s = 0
    /\ exit_by = "none"
    /\ stop_log = <<>>
    /\ stop_errors = 0
    /\ freed = <<>>
    /\ str = <<>>
    /\ cgrp_tab = <<>>
    /\ cgrp_n = 0
    /\ errmsg = ""
    /\ term_rows = 0

NextRun ==
    \/ \E cap \in Caps, ncpu \in 1 .. PQOS_MAX_CORES, fopen_ok \in BOOLEAN,
          fail_at \in 0 .. PQOS_MAX_CORES : monitor_setup(cap, ncpu, fopen_ok, fail_at)
    \/ \E factors_ok \in BOOLEAN, tty \in {0, 1}, ws_row \in -1 .. MaxRows :
          monitor_loop_begin(factors_ok, tty, ws_row)
    \/ \E poll_ok \in BOOLEAN,
          vals \in UNION {[1 .. k -> LlcValues] : k \in 0 .. PQOS_MAX_CORES},
          dt \in {0, MaxDelay} : monitor_loop_tick(poll_ok, vals, dt)
    \/ monitor_loop_pace
    \/ nanosleep_call
    \/ \E early \in BOOLEAN : nanosleep_return(early, 0)
    \/ other_signal(0)
    \/ monitor_loop_interrupted
    \/ monitor_loop_timeout
    \/ monitor_loop_end
    \/ monitoring_ctrlc
    \/ \E failed \in SUBSET (1 .. PQOS_MAX_CORES) : monitor_stop(failed)
    \/ monitor_cleanup

SpecRun == InitRun /\ [][NextRun]_vars

----------------------------------------------------------------------------
(* A timed run that no SIGINT / SIGHUP reaches *)

\* The state main() is in after `-m llc:0`, -u, -i and -t: one core group,
\* output to stdout, a run timeout and an interval; the wall clock shows any
\* fraction of a second.
InitTime ==
    /\ pc = "main"
    /\ sel_monitor_core_tab = <<NewCoreGroup(<<0>>, {"llc"}, 1)>>
    /\ sel_monitor_num = 1
    /\ sel_monitor_pid_tab = <<>>
    /\ sel_process_num = 0
    /\ m_mon_grps = <<1>>
    /\ nalloc = 1
    /\ sel_events_max = {"llc"}
    /\ evt = {}
    /\ n_left = 0
    /\ sel_output_type \in {"NULL", "xml"}
    /\ sel_output_file = "NULL"
    /\ sel_mon_top_like = 0
    /\ sel_timeout \in {0, 1}
    /\ sel_mon_interval \in {5, 10}
    /\ stop_monitoring_loop = 0
    /\ fp_monitor = "NULL"
    /\ out = <<>>
    /\ started = <<>>
    /\ start_ret = <<>>
    /\ llc = <<>>
    /\ mon_number = 0
    /\ mon_data = <<>>
    /\ max_lines = 0
    /\ istty = 0
    /\ poll_log = <<>>
    /\ poll_ret = ""
    /\ flushed = 0
    /\ factor = [e \in FactorNames |-> "1.0"]
    /\ asked = <<>>
    /\ sig_handler = "SIG_DFL"
    /\ clock \in 0 .. 9
    /\ tv_start = 0
    /\ tv_s = 0
    /\ exit_by = "none"
    /\ stop_log = <<>>
    /\ stop_errors = 0
    /\ freed = <<>>
    /\ str = <<>>
    /\ cgrp_tab = <<>>
    /\ cgrp_n = 0
    /\ errmsg = ""
    /\ term_rows = 0

NextTime ==
    \/ \E cap \in Caps : monitor_setup(cap, 1, TRUE, 0)
    \/ monitor_loop_begin(TRUE, 0, -1)
    \/ \E poll_ok \in BOOLEAN, vals \in [1 .. 1 -> LlcValues], dt \in 0 .. MaxDelay :
          monitor_loop_tick(poll_ok, vals, dt)
    \/ monitor_loop_pace
    \/ nanosleep_call
    \/ \E over \in 0 .. MaxDelay : nanosleep_return(FALSE, over)
    \/ \E d \in 0 .. MaxDelay : other_signal(d)
    \/ monitor_loop_interrupted
    \/ monitor_loop_timeout
    \/ monitor_loop_end
    \/ monitor_stop({})

SpecTime == InitTime /\ [][NextTime]_vars

----------------------------------------------------------------------------
(* main(): the options in any order, monitor_setup, monitor_loop up to the
   first rendered tick *)

NextMain ==
    \/ \E arg \in {"xml", "csv"} : selfn_monitor_file_type(arg)
    \/ selfn_monitor_cores
    \/ selfn_monitor_cores_end
    \/ \E p \in {"llc:", "mbr:", "all:", "LLC:", "llc", "bad:"}, n \in {-1, 1} :
          parse_monitor_event(p, n)
    \/ \E cand \in {<<0>>, <<1>>, <<0, 1>>} : parse_group(cand)
    \/ selfn_monitor_pids
    \/ selfn_monitor_pids_end
    \/ \E p \in {"llc:", "all:", "All:", "llc", "bad:"}, n \in 0 .. PQOS_MAX_PIDS :
          sel_store_process_id(p, n)
    \/ \E pid \in 1 .. 2 : store_pid(U64(0, pid))
    \/ \E cap \in Caps, ncpu \in 1 .. PQOS_MAX_CORES, fail_at \in 0 .. PQOS_MAX_CORES :
          monitor_setup(cap, ncpu, TRUE, fail_at)
    \/ \E factors_ok \in BOOLEAN : monitor_loop_begin(factors_ok, 0, -1)
    \/ \E vals \in UNION {[1 .. k -> {0}] : k \in 0 .. PQOS_MAX_CORES} :
          monitor_loop_tick(TRUE, vals, 0)

SpecMain == Init /\ [][NextMain]_vars

----------------------------------------------------------------------------
NextCores ==
    \/ selfn_monitor_cores
    \/ selfn_monitor_cores_end
    \/ \E p \in Prefixes, n \in -1 .. PQOS_MAX_CORES : parse_monitor_event(p, n)
    \/ \E cand \in CandGroups : parse_group(cand)

SpecCores == Init /\ [][NextCores]_vars

\* The target lists naming cores 0 .. PQOS_MAX_CORES - 1 only.
ClauseLists ==
    {s \in TargetLists :
        \A k \in 1 .. Len(s) : Range(s[k].list) \subseteq 0 .. (PQOS_MAX_CORES - 1)}

\* The -m options with their target lists.
NextClause ==
    \/ selfn_monitor_cores
    \/ selfn_monitor_cores_end
    \/ \E p \in {"llc:", "bad:"}, s \in ClauseLists : parse_monitor_event_str(p, s)
    \/ parse_group_next

SpecClause == Init /\ [][NextClause]_vars

NextPids ==
    \/ selfn_monitor_pids
    \/ selfn_monitor_pids_end
    \/ \E p \in Prefixes, n \in 0 .. PQOS_MAX_PIDS : sel_store_process_id(p, n)
    \/ \E v \in PidIds : store_pid(v)

SpecPids == Init /\ [][NextPids]_vars

\* The state after the options `-m llc:0,1`: two single-core groups, text
\* output to stdout.
InitTty ==
    /\ pc = "main"
    /\ sel_monitor_core_tab = [k \in 1 .. 2 |-> NewCoreGroup(<<k - 1>>, {"llc"}, k)]
    /\ sel_monitor_num = 2
    /\ sel_monitor_pid_tab = <<>>
    /\ sel_process_num = 0
    /\ m_mon_grps = [k \in 1 .. 2 |-> k]
    /\ nalloc = 2
    /\ sel_events_max = {"llc"}
    /\ evt = {}
    /\ n_left = 0
    /\ sel_output_type = "NULL"
    /\ sel_output_file = "NULL"
    /\ sel_mon_top_like = 0
    /\ sel_timeout = -1
    /\ sel_mon_interval = 10
    /\ stop_monitoring_loop = 0
    /\ fp_monitor = "NULL"
    /\ out = <<>>
    /\ started = <<>>
    /\ start_ret = <<>>
    /\ llc = <<>>
    /\ mon_number = 0
    /\ mon_data = <<>>
    /\ max_lines = 0
    /\ istty = 0
    /\ poll_log = <<>>
    /\ poll_ret = ""
    /\ flushed = 0
    /\ factor = [e \in FactorNames |-> "1.0"]
    /\ asked = <<>>
    /\ sig_handler = "SIG_DFL"
    /\ clock = 0
    /\ tv_start = 0
    /\ tv_s = 0
    /\ exit_by = "none"
    /\ stop_log = <<>>
    /\ stop_errors = 0
    /\ freed = <<>>
    /\ str = <<>>
    /\ cgrp_tab = <<>>
    /\ cgrp_n = 0
    /\ errmsg = ""
    /\ term_rows = 0

\* The loop on a terminal that is resized while the loop runs.
NextTty ==
    \/ \E cap \in Caps : monitor_setup(cap, PQOS_MAX_CORES, TRUE, 0)
    \/ \E tty \in {0, 1}, ws_row \in -1 .. MaxRows : monitor_loop_begin(TRUE, tty, ws_row)
    \/ \E vals \in UNION {[1 .. k -> {0}] : k \in 0 .. PQOS_MAX_CORES} :
          monitor_loop_tick(TRUE, vals, 0)
    \/ monitor_loop_pace
    \/ nanosleep_call
    \/ nanosleep_return(FALSE, 0)
    \/ monitor_loop_interrupted
    \/ monitor_loop_timeout
    \/ \E rows \in 0 .. MaxRows : terminal_resized(rows)
    \/ monitoring_ctrlc
    \/ monitor_loop_end

SpecTty == InitTty /\ [][NextTty]_vars

\* parse_monitor_event of the first clause "llc:<target list>", parse_event
\* done and strtocgrps about to be called on the target list.
InitCgrps ==
    /\ pc = "strtocgrps"
    /\ str \in TargetLists
    /\ cgrp_tab = <<>>
    /\ cgrp_n = 0
    /\ errmsg = ""
    /\ term_rows = 0
    /\ sel_monitor_num = 0
    /\ sel_monitor_core_tab = <<>>
    /\ sel_process_num = 0
    /\ sel_monitor_pid_tab = <<>>
    /\ m_mon_grps = <<>>
    /\ nalloc = 0
    /\ sel_events_max = parse_event_max("llc:", {})
    /\ evt = parse_event_evt("llc:")
    /\ n_left = 0
    /\ sel_output_type = "NULL"
    /\ sel_output_file = "NULL"
    /\ sel_mon_top_like = 0
    /\ sel_timeout = -1
    /\ sel_mon_interval = 10
    /\ stop_monitoring_loop = 0
    /\ fp_monitor = "NULL"
    /\ out = <<>>
    /\ started = <<>>
    /\ start_ret = <<>>
    /\ llc = <<>>
    /\ mon_number = 0
    /\ mon_data = <<>>
    /\ max_lines = 0
    /\ istty = 0
    /\ poll_log = <<>>
    /\ poll_ret = ""
    /\ flushed = 0
    /\ factor = [e \in FactorNames |-> "1.0"]
    /\ asked = <<>>
    /\ sig_handler = "SIG_DFL"
    /\ clock = 0
    /\ tv_start = 0
    /\ tv_s = 0
    /\ exit_by = "none"
    /\ stop_log = <<>>
    /\ stop_errors = 0
    /\ freed = <<>>

NextCgrps == strtocgrps_call

SpecCgrps == InitCgrps /\ [][NextCgrps]_vars

----------------------------------------------------------------------------
(* Registry claims *)

\* The candidate is stored as one new last entry carrying event e.
AppendedAsNew(cand, e) ==
    /\ sel_monitor_num' = sel_monitor_num + 1
    /\ Len(sel_monitor_core_tab') = Len(sel_monitor_core_tab) + 1
    /\ SubSeq(sel_monitor_core_tab', 1, Len(sel_monitor_core_tab)) = sel_monitor_core_tab
    /\ sel_monitor_core_tab'[Len(sel_monitor_core_tab')].cores = cand
    /\ sel_monitor_core_tab'[Len(sel_monitor_core_tab')].events = e

\* No entry is added; the group with the candidate's core set gets e ORed into
\* its mask and every other entry is as before.
MergedIntoExisting(cand, e) ==
    /\ sel_monitor_num' = sel_monitor_num
    /\ Len(sel_monitor_core_tab') = Len(sel_monitor_core_tab)
    /\ \A j \in 1 .. Len(sel_monitor_core_tab) :
          /\ sel_monitor_core_tab'[j].cores = sel_monitor_core_tab[j].cores
          /\ sel_monitor_core_tab'[j].events =
                IF SameSet(sel_monitor_core_tab[j].cores, cand)
                THEN sel_monitor_core_tab[j].events \cup e
                ELSE sel_monitor_core_tab[j].events

\* C1: in a step of parse_monitor_event's loop that raises no configuration
\* error, a candidate whose core set is disjoint from every registered group
\* becomes exactly one new entry with the clause's event, and a candidate
\* whose core set equals a registered group's adds no entry and ORs the
\* clause's event into that group's mask.
C1_DisjointNewIdenticalMerged ==
    [][\A cand \in CandGroups :
         (parse_group(cand) /\ pc' # "exit_failure") =>
            /\ (\A j \in 1 .. Len(sel_monitor_core_tab) :
                    Disjoint(sel_monitor_core_tab[j].cores, cand))
                 => AppendedAsNew(cand, evt)
            /\ (\E j \in 1 .. Len(sel_monitor_core_tab) :
                    SameSet(sel_monitor_core_tab[j].cores, cand))
                 => MergedIntoExisting(cand, evt)]_vars

\* Two groups are registered and one of them carries the OR of two clauses'
\* events: both a disjoint and an identical candidate were processed.
C1_Witness ==
    /\ pc = "main"
    /\ sel_monitor_num = 2
    /\ \E j \in 1 .. 2 : sel_monitor_core_tab[j].events = {"llc", "mbr"}
    /\ \E j \in 1 .. 2 : Len(sel_monitor_core_tab[j].cores) = 2

PartialOverlap(cores_a, cores_b) ==
    ~Disjoint(cores_a, cores_b) /\ ~SameSet(cores_a, cores_b)

\* C2: a candidate that shares a core with a registered group without having
\* the same core set ends the run with a configuration error, and neither the
\* table nor any group's mask changes.
C2_PartialOverlapFails ==
    [][\A cand \in CandGroups :
         (parse_group(cand) /\
          \E j \in 1 .. Len(sel_monitor_core_tab) :
               PartialOverlap(sel_monitor_core_tab[j].cores, cand))
         => /\ pc' = "exit_failure"
            /\ sel_monitor_core_tab' = sel_monitor_core_tab
            /\ sel_monitor_num' = sel_monitor_num
            /\ m_mon_grps' = m_mon_grps]_vars

\* The run was ended inside the loop over candidate groups, with two groups
\* registered before.
C2_Witness ==
    /\ pc = "exit_failure"
    /\ n_left > 0
    /\ sel_monitor_num = 2

\* C3: unless the run was ended by a configuration error, at most
\* PQOS_MAX_CORES core groups are registered and no slot beyond the last of
\* sel_monitor_core_tab or m_mon_grps was written.
C3_CoreTableBounded ==
    pc # "exit_failure" =>
        /\ sel_monitor_num <= PQOS_MAX_CORES
        /\ Len(sel_monitor_core_tab) <= PQOS_MAX_CORES
        /\ Len(m_mon_grps) <= PQOS_MAX_CORES

\* C4: unless the run was ended by a configuration error, at most
\* PQOS_MAX_PIDS pid groups are registered and no slot beyond the last of
\* sel_monitor_pid_tab was written.
C4_PidTableBounded ==
    pc # "exit_failure" =>
        /\ sel_process_num <= PQOS_MAX_PIDS
        /\ Len(sel_monitor_pid_tab) <= PQOS_MAX_PIDS

\* C18: a step of sel_store_process_id's loop that stores the pid a clause
\* names leaves one entry for that pid, holding the OR of the clause's event
\* and the events the pid had before, leaves every other entry as it was, and
\* the table never holds the same pid twice.
C18_PidsMergedNotDuplicated ==
    [][\A v \in PidIds :
         (store_pid(v) /\ pc' # "ub") =>
            LET old == {j \in 1 .. Len(sel_monitor_pid_tab) :
                            sel_monitor_pid_tab[j].pid = ToPid(v)}
                new == {j \in 1 .. Len(sel_monitor_pid_tab') :
                            sel_monitor_pid_tab'[j].pid = ToPid(v)}
            IN  /\ Cardinality(new) = 1
                /\ \A j \in new :
                      sel_monitor_pid_tab'[j].events =
                          evt \cup UNION {sel_monitor_pid_tab[k].events : k \in old}
                /\ \A j \in 1 .. Len(sel_monitor_pid_tab) :
                      j \notin old => sel_monitor_pid_tab'[j] = sel_monitor_pid_tab[j]
                /\ \A a, b \in 1 .. Len(sel_monitor_pid_tab') :
                      a # b => sel_monitor_pid_tab'[a].pid # sel_monitor_pid_tab'[b].pid]_vars

----------------------------------------------------------------------------
(* Run claims *)

\* Number of registered groups of the active mode, and their handles in
\* index order.
RegisteredNum == IF process_mode = 0 THEN sel_monitor_num ELSE sel_process_num
RegisteredHandles ==
    IF process_mode = 0
    THEN [k \in 1 .. Len(sel_monitor_core_tab) |-> sel_monitor_core_tab[k].pgrp]
    ELSE [k \in 1 .. Len(sel_monitor_pid_tab) |-> sel_monitor_pid_tab[k].pgrp]

CountTok(t) == Cardinality({k \in 1 .. Len(out) : out[k].t = t})
IsRow(tok) == tok.t = "row"

\* The handles of all rows written so far, in the order written.
RowHandles == LET rows == SelectSeq(out, IsRow) IN [r \in 1 .. Len(rows) |-> rows[r].h]

\* The handles of the rows of the last tick (its mon_number rows), in the
\* order written.
LastRows == SubSeq(RowHandles, Len(RowHandles) - mon_number + 1, Len(RowHandles))

\* C5: monitor_stop passes every registered group handle of the active mode
\* to the backend stop exactly once, in index order, whatever the loop did
\* and whichever stops failed.
C5_StopsEveryHandleInOrder ==
    pc = "stopped" =>
        /\ Len(stop_log) = RegisteredNum
        /\ stop_log = RegisteredHandles

\* Two groups, two ticks of which the rows were clamped to one, and a first
\* stop call that failed.
C5_Witness ==
    /\ pc = "stopped"
    /\ RegisteredNum = 2
    /\ Len(poll_log) = 2
    /\ mon_number = 1
    /\ stop_errors >= 1

\* C6: every poll call of monitor_loop covers all registered group handles
\* of the active mode.
C6_PollCoversAllGroups ==
    \A k \in 1 .. Len(poll_log) : poll_log[k] = RegisteredNum

\* C7: in top-like mode the rows of a tick have non-increasing cache
\* occupancy from each row to the next.
C7_TopRowsNonIncreasing ==
    (pc = "post_render" /\ sel_mon_top_like # 0) =>
        \A r \in 1 .. (Len(LastRows) - 1) : llc[LastRows[r]] >= llc[LastRows[r + 1]]

\* C8: with top-like disabled, the rows of a tick are in non-decreasing order
\* of the groups' first core id in core mode, and in registration order in
\* pid mode.
C8_RowsByFirstCoreOrRegistration ==
    (pc = "post_render" /\ sel_mon_top_like = 0) =>
        IF process_mode = 0
        THEN \A r \in 1 .. (Len(LastRows) - 1) :
                 FirstCore(LastRows[r]) <= FirstCore(LastRows[r + 1])
        ELSE LastRows = SubSeq(RegisteredHandles, 1, Len(LastRows))

\* Two rows were written for core groups registered in decreasing order of
\* their first core.
C8_Witness ==
    /\ pc = "post_render"
    /\ sel_mon_top_like = 0
    /\ process_mode = 0
    /\ Len(LastRows) = 2
    /\ sel_monitor_num = 2
    /\ sel_monitor_core_tab[1].cores[1] > sel_monitor_core_tab[2].cores[1]

\* C9: in XML mode, a run whose loop ended by stop signal or timeout has
\* written the root opening element exactly once, before its first record,
\* and the root closing element exactly once, after its last record.
C9_XmlRootOpenedAndClosedOnce ==
    (pc = "loop_done" /\ sel_output_type = "xml") =>
        /\ CountTok("xml_root_open") = 1
        /\ CountTok("xml_root_close") = 1
        /\ \A o, r, c \in 1 .. Len(out) :
              (out[o].t = "xml_root_open" /\ out[r].t = "row" /\
               out[c].t = "xml_root_close") => (o < r /\ r < c)

\* The closing output a finished loop has to show for the output type and
\* terminal at hand.
ClosingOutput ==
    (IF sel_output_type = "xml" THEN <<Tok("xml_root_close", 0)>> ELSE <<>>) \o
    (IF istty = 1 THEN <<Tok("newlines", 0)>> ELSE <<>>)

\* C10: a loop left on the stop flag and a loop left on the timeout end the
\* same way: the stream ends with the root close (XML) and the blank lines
\* (terminal), each written once, the working list is released, and
\* monitor_stop then stops the registered handles in index order.
C10_SignalEndsLikeTimeout ==
    (pc \in {"loop_done", "stopped"} /\ exit_by \in {"signal", "timeout"}) =>
        /\ Len(out) >= Len(ClosingOutput)
        /\ SubSeq(out, Len(out) - Len(ClosingOutput) + 1, Len(out)) = ClosingOutput
        /\ CountTok("xml_root_close") = (IF sel_output_type = "xml" THEN 1 ELSE 0)
        /\ CountTok("newlines") = istty
        /\ mon_data = <<>>
        /\ (pc = "stopped" => stop_log = RegisteredHandles)

\* An XML run on a terminal that rendered a tick and was stopped by a signal.
C10_Witness ==
    /\ pc = "stopped"
    /\ exit_by = "signal"
    /\ sel_output_type = "xml"
    /\ istty = 1
    /\ Len(poll_log) >= 1

----------------------------------------------------------------------------
(* Timing claims *)

C12_StopSignalCutsSleep ==
    [][(pc = "sleeping" /\ stop_monitoring_loop # 0) => pc' # "time_check"]_vars

----------------------------------------------------------------------------
(* Row claims *)

\* The event mask of the registered group behind handle h.
GroupEvents(h) ==
    IF process_mode = 0
    THEN LET k == CHOOSE k \in 1 .. Len(sel_monitor_core_tab) :
                      sel_monitor_core_tab[k].pgrp = h
         IN  sel_monitor_core_tab[k].events
    ELSE LET k == CHOOSE k \in 1 .. Len(sel_monitor_pid_tab) :
                      sel_monitor_pid_tab[k].pgrp = h
         IN  sel_monitor_pid_tab[k].events

EventOrder == <<"llc", "mbl", "mbr">>

\* The data columns a row is to have for a group mask and the displayed
\* events: in the order cache occupancy, local bandwidth, remote bandwidth, a
\* value for an event of the mask, a blank for an event only displayed.
ExpectedColumns(mask, max) ==
    LET shown == [k \in 1 .. 3 |-> EventOrder[k] \in (mask \cup max)]
        idx == {k \in 1 .. 3 : shown[k]}
        nth(n) == CHOOSE k \in idx : Cardinality({j \in idx : j < k}) = n - 1
    IN  [n \in 1 .. Cardinality(idx) |->
            [of |-> EventOrder[nth(n)], data |-> EventOrder[nth(n)] \in mask]]

\* C13: in every encoding each rendered row has, in the order cache
\* occupancy, local bandwidth, remote bandwidth, a value for each event of
\* the group's own mask, a blank column for each event that only
\* sel_events_max holds, and nothing for the other events; the row of a group
\* with an empty mask is written with blank columns only.
C13_RowColumnsByMasks ==
    \A k \in 1 .. Len(out) :
        out[k].t = "row" =>
            out[k].cols = ExpectedColumns(GroupEvents(out[k].h), sel_events_max)

\* A tick was rendered with a row that holds a value, and a row of a group
\* with an empty mask that holds a blank column.
C13_Witness ==
    /\ pc = "post_render"
    /\ \E k \in 1 .. Len(out) :
          /\ out[k].t = "row"
          /\ \E a \in 1 .. Len(out[k].cols) : out[k].cols[a].data
    /\ \E k \in 1 .. Len(out) :
          /\ out[k].t = "row"
          /\ GroupEvents(out[k].h) = {}
          /\ out[k].cols # <<>>

\* C14: every rendered row has the data columns of the header built from
\* sel_events_max: as many, for the same events in the same order.
C14_RowsAlignedWithHeader ==
    \A k \in 1 .. Len(out) :
        out[k].t = "row" =>
            [c \in 1 .. Len(out[k].cols) |-> out[k].cols[c].of]
                = HeaderColumns(sel_events_max)

----------------------------------------------------------------------------
(* monitor_setup claims *)

\* C15: once monitor_setup ran with at least one core group and at least one
\* pid group registered, it has returned an error and no backend start call
\* was made.
C15_BothModesRejected ==
    (pc \in {"setup_ok", "setup_failed", "loop_top", "post_render"}
        /\ sel_monitor_num > 0 /\ sel_process_num > 0) =>
            (pc = "setup_failed" /\ started = <<>>)

\* monitor_setup returned an error for a registry with a core group and a
\* pid group.
C15_Witness ==
    /\ pc = "setup_failed"
    /\ sel_monitor_num > 0
    /\ sel_process_num > 0
    /\ fp_monitor = "stdout"

\* The step is a monitor_setup that got past opening its output.
SetupStep ==
    pc = "main" /\ pc' \in {"setup_ok", "setup_failed"} /\ fp_monitor' # "NULL"

\* C16: a monitor_setup that finds no core group and no pid group registers
\* one single-core group per core of cpu_info, in cpu_info order, each with
\* the union of the event types the capability lists, sets sel_events_max to
\* that union and starts those groups in order (all of them unless a start
\* fails); with a group of either mode registered it adds none.
C16_DefaultPopulation ==
    [][SetupStep =>
         IF sel_monitor_num = 0 /\ sel_process_num = 0
         THEN \E cap \in Caps, ncpu \in 1 .. PQOS_MAX_CORES :
                 /\ sel_monitor_num' = ncpu
                 /\ Len(sel_monitor_core_tab') = ncpu
                 /\ \A k \in 1 .. ncpu :
                       /\ sel_monitor_core_tab'[k].cores = <<k - 1>>
                       /\ sel_monitor_core_tab'[k].events = cap.core
                       /\ m_mon_grps'[k] = sel_monitor_core_tab'[k].pgrp
                 /\ sel_events_max' = cap.core
                 /\ sel_process_num' = 0
                 /\ Len(started') <= ncpu
                 /\ (pc' = "setup_ok" => Len(started') = ncpu)
                 /\ \A k \in 1 .. Len(started') :
                       started'[k] = [h |-> sel_monitor_core_tab'[k].pgrp,
                                      events |-> cap.core]
         ELSE /\ sel_monitor_num' = sel_monitor_num
              /\ sel_process_num' = sel_process_num
              /\ Len(sel_monitor_core_tab') = Len(sel_monitor_core_tab)
              /\ Len(sel_monitor_pid_tab') = Len(sel_monitor_pid_tab)]_vars

\* Two default groups with all three events were registered and started, and
\* their tick rendered.
C16_Witness ==
    /\ pc = "post_render"
    /\ nalloc = 2
    /\ sel_monitor_num = 2
    /\ sel_process_num = 0
    /\ sel_monitor_core_tab[2].cores = <<1>>
    /\ sel_events_max = {"llc", "mbl", "mbr"}
    /\ Len(started) = 2

\* The table of the mode a registry is monitored in.
ActiveTab(ctab, ptab) == IF Len(ptab) > 0 THEN ptab ELSE ctab

\* C17: a monitor_setup that succeeds on a registered configuration leaves no
\* group with the all-events mask: each group that had it is started with,
\* and keeps, the union of the capability's event types (core mode) or of its
\* pid-supported event types (pid mode), which is ORed into sel_events_max;
\* every other group is started with its mask as it was.
C17_SentinelExpanded ==
    [][(SetupStep /\ pc' = "setup_ok" /\ sel_monitor_num + sel_process_num > 0) =>
         \E cap \in Caps :
            LET old == ActiveTab(sel_monitor_core_tab, sel_monitor_pid_tab)
                new == ActiveTab(sel_monitor_core_tab', sel_monitor_pid_tab')
                all_evts == IF sel_process_num > 0 THEN cap.pid ELSE cap.core
                any == \E k \in 1 .. Len(old) : old[k].events = PQOS_MON_EVENT_ALL
            IN  /\ Len(new) = Len(old)
                /\ Len(started') = Len(old)
                /\ \A k \in 1 .. Len(old) :
                      /\ new[k].events # PQOS_MON_EVENT_ALL
                      /\ new[k].events =
                            (IF old[k].events = PQOS_MON_EVENT_ALL THEN all_evts
                             ELSE old[k].events)
                      /\ started'[k] = [h |-> old[k].pgrp, events |-> new[k].events]
                /\ sel_events_max' =
                      (IF any THEN sel_events_max \cup all_evts ELSE sel_events_max)]_vars

\* A successful setup in pid mode started one pid with a specific mask and
\* one with the pid-supported events in place of the all-events mask.
C17_Witness ==
    /\ pc = "setup_ok"
    /\ sel_process_num = 2
    /\ \E a, b \in 1 .. 2 :
          /\ sel_monitor_pid_tab[a].events = {"llc"}
          /\ started[b].events = {}
    /\ sel_events_max = {"llc"}

----------------------------------------------------------------------------
(* strtocgrps claims *)

\* The groups a target list names, in order of appearance: one single-core
\* group for each number outside brackets, one group holding every core of a
\* bracketed list.
RECURSIVE GroupsNamed(_)
GroupsNamed(s) ==
    IF s = <<>>
    THEN <<>>
    ELSE (IF Head(s).bracket
          THEN <<Head(s).list>>
          ELSE [i \in 1 .. Len(Head(s).list) |-> <<Head(s).list[i]>>])
         \o GroupsNamed(Tail(s))

\* C19: strtocgrps returned for a target list that has no empty bracket and
\* names no more groups than the table has slots: the table holds, in order
\* of appearance, one single-core group per number outside brackets and one
\* group with all listed cores per bracketed list, and the value returned is
\* the number of these groups.
C19_GroupsInOrderOfAppearance ==
    (/\ pc = "strtocgrps_ret"
     /\ \A k \in 1 .. Len(str) : str[k].list # <<>>
     /\ Len(GroupsNamed(str)) <= PQOS_MAX_CORES)
        => /\ cgrp_tab = GroupsNamed(str)
           /\ cgrp_n = Len(GroupsNamed(str))

----------------------------------------------------------------------------
(* parse_event claims *)

\* The string s begins, letter case aside, with the lower-case string pre.
BeginsWith(s, pre) ==
    /\ Len(s) >= Len(pre)
    /\ \A i \in 1 .. Len(pre) : tolower(s[i]) = pre[i]

\* The clause begins with llc:, mbr:, mbl:, all: or a bare colon.
Recognised(p) ==
    \E pre \in {"llc:", "mbr:", "mbl:", "all:", ":"} : BeginsWith(Text(p), Text(pre))

\* The step ends in the configuration error of parse_event and leaves the
\* group tables, the group counts and sel_events_max as they were.
ClauseRejected ==
    /\ pc' = "exit_failure"
    /\ errmsg' = "Unrecognized monitoring event type"
    /\ UNCHANGED <<sel_monitor_core_tab, sel_monitor_pid_tab, sel_monitor_num,
                   sel_process_num, sel_events_max>>

\* C20: a clause of -m or -p that does not begin (letter case aside) with
\* llc:, mbr:, mbl:, all: or a bare colon, a clause without colon included,
\* is never accepted: the step that parses it ends in a configuration error
\* and leaves the group tables, the group counts and sel_events_max unchanged.
C20_UnrecognisedClauseFails ==
    [][\A p \in Prefixes :
          (/\ ~Recognised(p)
           /\ \/ \E n \in -1 .. PQOS_MAX_CORES : parse_monitor_event(p, n)
              \/ \E n \in 0 .. PQOS_MAX_PIDS : sel_store_process_id(p, n))
              => ClauseRejected]_vars

\* An option whose first clause registered a group and whose next clause was
\* not recognised: the run has ended in parse_event's error with the group
\* and sel_events_max still there.
C20_Witness ==
    /\ pc = "exit_failure"
    /\ errmsg = "Unrecognized monitoring event type"
    /\ sel_monitor_num + sel_process_num > 0
    /\ sel_events_max # {}

----------------------------------------------------------------------------
(* Configuration error claims *)

\* The messages of the configuration errors of -m and -p.
ConfigErrors ==
    {"Unrecognized monitoring event type",
     "Error: Too many cores selected",
     "Error: cannot monitor same cores in different groups",
     "No process id selected for monitoring",
     "too many processes selected for monitoring"}

ConfigErrorRaised == pc = "exit_failure" /\ errmsg \in ConfigErrors

\* C21 as stated: when a configuration error has been raised, no handle has
\* been allocated (m_mon_grps has no entry) and no backend start call has been
\* made.
C21_NoHandleOnConfigError ==
    ConfigErrorRaised => (nalloc = 0 /\ m_mon_grps = <<>> /\ started = <<>>)

\* C21 amended: when a configuration error has been raised, no backend start
\* call has been made, and every group registered before the error holds the
\* handle allocated for it at registration.
C21_NoStartOnConfigError ==
    ConfigErrorRaised =>
        /\ started = <<>>
        /\ \A k \in 1 .. Len(sel_monitor_core_tab) :
              sel_monitor_core_tab[k].pgrp \in 1 .. nalloc
        /\ \A k \in 1 .. Len(sel_monitor_pid_tab) :
              sel_monitor_pid_tab[k].pgrp \in 1 .. nalloc

\* A clause registered a group, and a later clause raised a configuration
\* error.
C21_Witness ==
    /\ ConfigErrorRaised
    /\ sel_monitor_num + sel_process_num > 0
    /\ nalloc > 0

----------------------------------------------------------------------------
(* Terminal claims *)

\* The rows the step writes.
RowsWritten == Len(SelectSeq(out', IsRow)) - Len(SelectSeq(out, IsRow))

\* The step is a tick of the loop that polled and rendered.
TickRendered == pc = "loop_top" /\ pc' = "post_render"

\* The group rows that fit a terminal of R rows: max(R, 3) - 2.
RowsThatFit(R) == (IF R < 3 THEN 3 ELSE R) - 2

\* C22: on a terminal whose row count could be read, every tick renders the
\* groups that fit the rows the terminal has at that tick, up to all
\* registered groups: more after the terminal was enlarged, fewer after it
\* was shrunk.
C22_RowsFollowTerminal ==
    [][(TickRendered /\ istty = 1 /\ max_lines > 0)
          => RowsWritten = Min(RegisteredNum, RowsThatFit(term_rows))]_vars

----------------------------------------------------------------------------
(* Registry invariants *)

\* C23: every group registered by the -m options has at least one core.
C23_GroupsNonEmpty ==
    \A k \in 1 .. Len(sel_monitor_core_tab) : Len(sel_monitor_core_tab[k].cores) >= 1


\* C24: the core sets of any two distinct entries of sel_monitor_core_tab are
\* disjoint and are not the same set.
C24_GroupsPairwiseDisjoint ==
    \A a, b \in 1 .. Len(sel_monitor_core_tab) :
        a # b => /\ Disjoint(sel_monitor_core_tab[a].cores, sel_monitor_core_tab[b].cores)
                 /\ ~SameSet(sel_monitor_core_tab[a].cores, sel_monitor_core_tab[b].cores)

----------------------------------------------------------------------------
(* Loop exit claims *)

\* The positions inside the while loop of monitor_loop.
LoopPcs == {"loop_top", "post_render", "pre_sleep", "sleeping", "sleep_intr",
            "sleeping2", "time_check"}

\* The step calls pqos_mon_poll.
Polled == poll_log' # poll_log

\* C25: a step whose poll fails writes nothing and leaves monitor_loop by
\* return; after that no poll is made, nothing is written by the loop and
\* the loop is not entered again.
C25_PollFailureEndsLoop ==
    [][/\ (Polled /\ poll_ret' # "PQOS_RETVAL_OK")
            => (pc' = "loop_returned" /\ out' = out)
       /\ (pc = "loop_returned" /\ exit_by = "poll_error")
            => (~Polled /\ out' = out /\ pc' \notin LoopPcs \cup {"loop_break"})]_vars

\* The first poll of a run failed (ticks were left to run), and the program
\* went on to its end.
C25_Witness ==
    /\ pc = "stopped"
    /\ exit_by = "poll_error"
    /\ poll_ret = "PQOS_RETVAL_ERROR"
    /\ Len(poll_log) = 1
    /\ Len(poll_log) < MaxTicks

\* C26: a tick after the first one does not start (its poll is not made)
\* before the full interval has passed since the start tv_s of the tick before
\* it, however often signals other than the stop signal woke the sleep.
C26_NextTickAfterFullInterval ==
    [][(pc = "loop_top" /\ Polled /\ Len(poll_log) >= 1)
          => clock >= tv_s + sel_mon_interval]_vars

\* The rows of out, and those of them that were flushed.
Rows(o) == SelectSeq(o, IsRow)
FlushedRows(o, f) == SelectSeq(SubSeq(o, 1, f), IsRow)

\* C27: a tick whose poll succeeded stays in the loop until it has written
\* the rows of the clamped working list and flushed them; and the loop is left
\* (other than by the return after a failed poll) only from the loop top,
\* from the stop check after the flush, from the stop check after an
\* interrupted sleep or from the timeout check, with every row written so far
\* flushed and nothing written by the leaving step.
C27_TickCompletesBeforeExit ==
    [][/\ (Polled /\ poll_ret' = "PQOS_RETVAL_OK")
            => /\ pc' = "post_render"
               /\ Rows(out') = Rows(out) \o
                     [k \in 1 .. mon_number' |-> print_row(sel_output_type, mon_data'[k])]
               /\ FlushedRows(out', flushed') = Rows(out')
               /\ stop_monitoring_loop' = stop_monitoring_loop
       /\ (pc \in LoopPcs /\ pc' \notin LoopPcs /\ exit_by' # "poll_error")
            => /\ pc \in {"loop_top", "post_render", "sleep_intr", "time_check"}
               /\ pc' = "loop_break"
               /\ out' = out
               /\ FlushedRows(out, flushed) = Rows(out)]_vars

\* The loop was left on the stop flag after a tick that rendered every
\* registered group.
C27_Witness ==
    /\ pc = "loop_break"
    /\ exit_by = "signal"
    /\ stop_monitoring_loop # 0
    /\ Len(poll_log) = 1
    /\ Len(Rows(out)) = RegisteredNum
    /\ RegisteredNum >= 2

----------------------------------------------------------------------------
(* Row clamp claims *)

\* C28: with R the row count monitor_loop read from the terminal it writes
\* to, every tick renders at most max(R, 3) - 2 rows and at least one if a
\* group is registered; without a terminal, or when the row count could not
\* be read, every tick renders all registered groups.
C28_RowsClampedToTerminal ==
    [][TickRendered =>
          IF istty = 1 /\ max_lines > 0
          THEN /\ RowsWritten <= RowsThatFit(term_rows)
               /\ (RegisteredNum >= 1 => RowsWritten >= 1)
          ELSE RowsWritten = RegisteredNum]_vars

\* A tick on a terminal of fewer than 4 rows rendered one of two registered
\* groups.
C28_Witness ==
    /\ pc = "post_render"
    /\ istty = 1
    /\ max_lines = TERM_MIN_NUM_LINES
    /\ term_rows < TERM_MIN_NUM_LINES
    /\ RegisteredNum = 2
    /\ Len(Rows(out)) = 1

----------------------------------------------------------------------------
(* Header claims *)

\* What the step writes.
Written == SubSeq(out', Len(out) + 1, Len(out'))

IsHeader(tok) == tok.t \in {"header", "csv_header"}

\* In the sequence o there is exactly one header, before every row.
OneHeaderBeforeRows(o) ==
    /\ Len(SelectSeq(o, IsHeader)) = 1
    /\ \A a, b \in 1 .. Len(o) : (IsHeader(o[a]) /\ IsRow(o[b])) => a < b

\* C29 as stated: in the text and in the CSV encoding every tick writes the
\* header once, before the rows it writes.
C29_HeaderEveryTick ==
    [][(TickRendered /\ sel_output_type \in {"text", "csv"})
          => OneHeaderBeforeRows(Written)]_vars

\* C29 amended: in the text encoding every tick writes the header once,
\* before the rows it writes; in the CSV encoding no tick writes a header, and
\* the output holds the header once, written before the first tick's rows.
C29_TextHeaderEveryTickCsvOnce ==
    [][TickRendered =>
          /\ sel_output_type = "text" => OneHeaderBeforeRows(Written)
          /\ sel_output_type = "csv" =>
                /\ SelectSeq(Written, IsHeader) = <<>>
                /\ OneHeaderBeforeRows(out')]_vars

\* Two ticks were rendered in the CSV encoding.
C29_Witness ==
    /\ pc = "post_render"
    /\ sel_output_type = "csv"
    /\ Len(poll_log) = 2
    /\ Len(Rows(out)) >= 2
    /\ Len(SelectSeq(out, IsHeader)) = 1

----------------------------------------------------------------------------
(* Scale factor claims *)

\* The backend could not supply a descriptor it was asked for.
DescriptorMissing(calls) ==
    \E k \in 1 .. Len(calls) : calls[k].ret # "PQOS_RETVAL_OK"

\* C30: get_event_factors asks the backend for the descriptor of events of
\* sel_events_max only, and the factor of every other event is 1.0; when a
\* descriptor asked for is missing, monitor_loop returns with no signal
\* handler installed, nothing written and no poll made, and nothing of that
\* happens afterwards.
C30_FactorsOnlyForDisplayedEvents ==
    [][/\ (pc = "setup_ok" /\ pc' # "setup_ok")
            => /\ \A k \in 1 .. Len(asked') : asked'[k].event \in sel_events_max
               /\ \A e \in FactorNames \ sel_events_max : factor'[e] = "1.0"
               /\ DescriptorMissing(asked')
                     => /\ pc' = "loop_returned"
                        /\ sig_handler' = "SIG_DFL"
                        /\ out' = out
                        /\ poll_log' = <<>>
       /\ (pc = "loop_returned" /\ DescriptorMissing(asked))
            => /\ sig_handler' = "SIG_DFL"
               /\ out' = out
               /\ ~Polled
               /\ pc' \notin LoopPcs \cup {"loop_break"}]_vars

\* The descriptor of remote bandwidth, the second of two displayed events,
\* is missing, and cache occupancy's was supplied; local bandwidth is not
\* displayed.
C30_Witness ==
    /\ pc = "loop_returned"
    /\ sel_events_max = {"llc", "mbr"}
    /\ Len(asked) = 2
    /\ asked[2] = [event |-> "mbr", ret |-> "PQOS_RETVAL_ERROR"]
    /\ factor["llc"] = "scale_factor"
    /\ factor["mbl"] = "1.0"
    /\ sig_handler = "SIG_DFL"

----------------------------------------------------------------------------
(* Group bound claims *)

\* C31: parse_monitor_event on a clause whose target list names more groups
\* than PQOS_MAX_CORES ends the run with the too-many-cores error, and
\* registers no group and allocates no handle for the clause.
C31_TooManyGroupsFail ==
    [][(pc = "cores_tok" /\ str' # <<>> /\ Len(GroupsNamed(str')) > PQOS_MAX_CORES)
          => /\ pc' = "exit_failure"
             /\ errmsg' = "Error: Too many cores selected"
             /\ n_left' = 0
             /\ nalloc' = nalloc
             /\ sel_monitor_num' = sel_monitor_num]_vars

----------------------------------------------------------------------------
(* Backend start claims *)

\* The handles of the groups of the active mode after the step, by index.
HandlesAfter ==
    IF sel_process_num' <= 0
    THEN [k \in 1 .. Len(sel_monitor_core_tab') |-> sel_monitor_core_tab'[k].pgrp]
    ELSE [k \in 1 .. Len(sel_monitor_pid_tab') |-> sel_monitor_pid_tab'[k].pgrp]

\* C32: the backend start calls of monitor_setup are made for the groups of
\* the active mode in index order, one call for each group reached; a call
\* that fails is the last one and monitor_setup fails, and when no call fails
\* every group is started.
C32_StartInOrderUntilFailure ==
    [][SetupStep =>
          /\ Len(started') <= Len(HandlesAfter)
          /\ Len(start_ret') = Len(started')
          /\ \A k \in 1 .. Len(started') : started'[k].h = HandlesAfter[k]
          /\ \A k \in 1 .. Len(start_ret') :
                start_ret'[k] # "PQOS_RETVAL_OK"
                   => (k = Len(started') /\ pc' = "setup_failed")
          /\ pc' = "setup_ok" => Len(started') = Len(HandlesAfter)]_vars

\* The start of the first of two registered groups failed.
C32_Witness ==
    /\ pc = "setup_failed"
    /\ RegisteredNum = 2
    /\ Len(started) = 1
    /\ start_ret = <<"PQOS_RETVAL_ERROR">>

----------------------------------------------------------------------------
(* Displayed events claims *)

\* C33: when monitor_loop starts after a successful monitor_setup,
\* sel_events_max holds every event of the mask of every registered group of
\* the active mode, whatever -m and -p options built the registry.
C33_MaxCoversEveryMask ==
    (pc \in {"setup_ok"} \cup LoopPcs) =>
        LET tab == ActiveTab(sel_monitor_core_tab, sel_monitor_pid_tab)
        IN  \A k \in 1 .. Len(tab) : tab[k].events \subseteq sel_events_max

----------------------------------------------------------------------------
(* Stop flag claims *)

\* C34: once stop_monitoring_loop is set it stays set and no poll is made;
\* the loop is left at the next place it looks at the flag (loop top, after
\* the tick's flush, after an interrupted sleep); and a loop left before its
\* first tick wrote no row and gets the closing output all the same.
C34_NoPollAfterStop ==
    [][/\ stop_monitoring_loop # 0
            => (stop_monitoring_loop' # 0 /\ ~Polled)
       /\ (stop_monitoring_loop # 0 /\ pc \in {"loop_top", "post_render", "sleep_intr"})
            => (pc' = "loop_break" /\ exit_by' = "signal" /\ out' = out)
       /\ (pc = "loop_break" /\ poll_log = <<>> /\ pc' # pc)
            => /\ pc' = "loop_done"
               /\ Rows(out') = <<>>
               /\ out' = out \o ClosingOutput]_vars

\* The flag was set before the first tick: the loop ended without a poll,
\* and the XML root close was written.
C34_Witness ==
    /\ pc = "loop_done"
    /\ exit_by = "signal"
    /\ stop_monitoring_loop # 0
    /\ poll_log = <<>>
    /\ sel_output_type = "xml"
    /\ CountTok("xml_root_close") = 1

----------------------------------------------------------------------------
(* Cleanup claims *)

\* Times the handle h was passed to free.
TimesFreed(h) == Cardinality({j \in 1 .. Len(freed) : freed[j] = h})

\* C35: once monitor_cleanup has run after monitor_stop, every handle
\* allocated for a registered core group or pid group has been freed exactly
\* once.
C35_EveryHandleFreedOnce ==
    pc = "cleaned" => \A h \in 1 .. nalloc : TimesFreed(h) = 1

====
